---- MODULE Spec2Model ----
(***************************************************************************)
(* Model of the sentence pipeline of logos-omega                           *)
(* (compilers/logos-parser): the tokenizer parse_with_spans (parser.rs),   *)
(* the lexer Lexer::tokenize (lib.rs), the morphological resolver          *)
(* resolve_morphology (morphology.rs) and the greedy dependency parser     *)
(* parse_greedy (syntax.rs); of the entity store LogosWorld and its        *)
(* agreement checks (core/logos-ecs); of the semantic graph and            *)
(* validate_semantics (compilers/logos-solver); and of the engine          *)
(* LogosEngine::analyze_core (platforms/logos-wasm).  Each component has   *)
(* its own specifications; while one runs the variables of the others are  *)
(* idle.                                                                   *)
(*                                                                         *)
(* A &str is the sequence of its Unicode scalar values; its bytes are      *)
(* those of its UTF-8 encoding, and spans count bytes.                     *)
(*                                                                         *)
(* A MorphFlags value is modelled as the set of the names of its bits:     *)
(* contains(F) is \subseteq, intersects(F) is a non-empty intersection,    *)
(* `a & mask` is \cap.  Token indices are the 0-based indices of the Rust  *)
(* slice; Tok(k) reads tokens[k].  An Option<T> is a sequence of length    *)
(* at most one: << >> is None and <<x>> is Some(x).                        *)
(*                                                                         *)
(* Token texts are transliterated to ASCII: "upo" is the monotonic         *)
(* upsilon-pi-omicron(tonos) of syntax.rs:84, "hupo" the polytonic form    *)
(* with rough breathing of the same line, "apo" any other preposition.     *)
(***************************************************************************)
EXTENDS Integers, Sequences, FiniteSets

VARIABLES
    tokens,                     \* the input slice (never changes)
    pc,                         \* "start" | "loop" | "done"
    i,                          \* loop index of the main pass
    root,                       \* index of the root token
    deps,                       \* Vec<Dependency>, in emission order
    open_preposition_idx,       \* Option<usize>
    pending_modifiers,          \* Vec<usize>
    last_noun_idx,              \* Option<usize>
    active_coordination_head,   \* Option<usize>
    pending_relative_clause,    \* Option<(pronoun_idx, antecedent_idx)>
    current_clause_head,        \* usize
    oob,                        \* TRUE once a slice index was out of range (a panic)
    \* parse_with_spans and Lexer::tokenize (parser.rs, lib.rs)
    original_input,             \* the text, a sequence of Unicode scalars
    input,                      \* the rest of the text still to scan
    result,                     \* Vec<(Span, RawToken)>
    lex_tokens,                 \* Vec<Token> returned by Lexer::tokenize
    lex_pc,                     \* "idle" | "scan" | "scanned" | "done" | "panic"
    \* resolve_morphology (morphology.rs)
    dict,                       \* the archived Dictionary: lemmas, paradigms
    token_text,                 \* the surface form
    known_lemma_id,             \* Option<u32>, the lemma hint
    analysis,                   \* Option<MorphAnalysis>: the value returned
    morph_pc,                   \* "idle" | "call" | "returned" | "panic"
    \* LogosWorld (logos-ecs)
    world,                      \* the hecs World of a LogosWorld
    ecs,                        \* the caller of the store: its tokens, edges, handles, errors
    \* SemanticGraph (logos-solver)
    graph,                      \* the SemanticGraph: nodes and edges in order of addition
    search,                     \* satisfies_constraint: subject, attribute, stack, visited, result
    \* LogosEngine::analyze_core (logos-wasm)
    analyses                    \* the locals of each running analysis

\* The variables of parse_greedy.
parsevars == << tokens, pc, i, root, deps, open_preposition_idx, pending_modifiers,
                last_noun_idx, active_coordination_head, pending_relative_clause,
                current_clause_head, oob >>

\* The variables of the tokenizer and of the lexer.
lexvars == << original_input, input, result, lex_tokens, lex_pc >>

\* The variables of the morphological resolver.
morphvars == << dict, token_text, known_lemma_id, analysis, morph_pc >>

\* The variables of the entity store and of its caller.
storevars == << world, ecs >>

\* The variables of the semantic graph and of a search in it.
graphvars == << graph, search >>

\* The variables of the store, the graph and the engine.
corevars == << storevars, graphvars, analyses >>

vars == << parsevars, lexvars, morphvars, corevars >>

\* Longest input slice enumerated over the structural vocabulary.
MaxLen == 5

\* Longest continuation enumerated after a fixed sentence opening.
MaxRest == 4

-----------------------------------------------------------------------------
(* MorphFlags groups, as the masks the parser builds from them.            *)

\* Case, gender, number and verb bits declared in the bitflags block.
DeclaredFlags ==
    { "NOMINATIVE", "GENITIVE", "ACCUSATIVE", "VOCATIVE",
      "MASCULINE", "FEMININE", "NEUTER", "SINGULAR", "PLURAL",
      "FIRST_PERSON", "SECOND_PERSON", "THIRD_PERSON",
      "ACTIVE", "PASSIVE", "PRESENT", "PAST", "FUTURE" }

\* Bits the parser uses whose declaration is not part of the sources at
\* hand: the fifth case and the category markers, each a distinct bit.
CategoryFlags ==
    { "DATIVE", "NOUN", "ADJECTIVE", "ARTICLE", "PREPOSITION", "CONJUNCTION",
      "PRONOUN", "RELATIVE", "PARTICIPLE", "INFINITIVE", "VERB" }

case_mask == { "NOMINATIVE", "GENITIVE", "ACCUSATIVE", "VOCATIVE", "DATIVE" }

gender_mask == { "MASCULINE", "FEMININE", "NEUTER" }

number_mask == { "SINGULAR", "PLURAL" }

verb_mask ==
    { "ACTIVE", "PASSIVE", "PRESENT", "PAST", "FUTURE",
      "FIRST_PERSON", "SECOND_PERSON", "THIRD_PERSON" }

SyntaxRole ==
    { "Subject", "Object", "IndirectObject", "Modifier", "Root",
      "PrepositionArg", "Coordinator", "Conjunct", "PassiveAgent",
      "AbsoluteClause", "Complement", "RelativeClause", "None" }

MorphToken(text, flags) == [text |-> text, flags |-> flags]

Dependency(h, d, r) == [head_index |-> h, dependent_index |-> d, role |-> r]

-----------------------------------------------------------------------------
(* Pure helpers of syntax.rs.                                              *)

\* Variant used to test a claim below: a token with a case is no verb.
is_verb_NoCase(t) ==
    /\ t.flags \cap verb_mask # {}
    /\ ~("NOUN" \in t.flags)
    /\ t.flags \cap case_mask = {}

is_verb(t) == (t.flags \cap verb_mask # {}) /\ ~("NOUN" \in t.flags)

has_case(t) == t.flags \cap case_mask # {}

\* Mutant: no exemption from the case match for an Infinitive head.
check_agreement_StrictCase(mod_token, head_token) ==
    /\ (mod_token.flags \cap case_mask) = (head_token.flags \cap case_mask)
    /\ \/ mod_token.flags \cap gender_mask = {}
       \/ head_token.flags \cap gender_mask = {}
       \/ (mod_token.flags \cap gender_mask) = (head_token.flags \cap gender_mask)
    /\ \/ mod_token.flags \cap number_mask = {}
       \/ head_token.flags \cap number_mask = {}
       \/ (mod_token.flags \cap number_mask) = (head_token.flags \cap number_mask)

check_agreement(mod_token, head_token) ==
    LET case_match ==
            \/ (mod_token.flags \cap case_mask) = (head_token.flags \cap case_mask)
            \/ "INFINITIVE" \in head_token.flags
        gender_match ==
            \/ mod_token.flags \cap gender_mask = {}
            \/ head_token.flags \cap gender_mask = {}
            \/ (mod_token.flags \cap gender_mask) = (head_token.flags \cap gender_mask)
        number_match ==
            \/ mod_token.flags \cap number_mask = {}
            \/ head_token.flags \cap number_mask = {}
            \/ (mod_token.flags \cap number_mask) = (head_token.flags \cap number_mask)
    IN  case_match /\ gender_match /\ number_match

-----------------------------------------------------------------------------
(* Input tokens.  Every token carries at most one bit of each exclusive    *)
(* group (one case, one gender, one number), as the tagset requires.       *)

VerbAct   == MorphToken("blepei",    {"PRESENT", "ACTIVE", "THIRD_PERSON"})
VerbPass  == MorphToken("ballomai",  {"VERB", "PASSIVE"})
PrepUpo   == MorphToken("upo",       {"PREPOSITION"})
PrepHupo  == MorphToken("hupo",      {"PREPOSITION"})
PrepApo   == MorphToken("apo",       {"PREPOSITION"})
Conj      == MorphToken("kai",       {"CONJUNCTION"})
RelNom    == MorphToken("os",        {"RELATIVE", "PRONOUN", "NOMINATIVE"})
RelAcc    == MorphToken("on",        {"RELATIVE", "PRONOUN", "ACCUSATIVE"})
RelGen    == MorphToken("ou",        {"RELATIVE", "PRONOUN", "GENITIVE"})
NounNom   == MorphToken("anthropos", {"NOUN", "NOMINATIVE"})
NounAcc   == MorphToken("auton",     {"NOUN", "ACCUSATIVE"})
NounGen   == MorphToken("anthropou", {"NOUN", "GENITIVE"})
NounGenF  == MorphToken("oikias",    {"NOUN", "GENITIVE", "FEMININE", "SINGULAR"})
NounDat   == MorphToken("mathete",   {"NOUN", "DATIVE"})
NounVoc   == MorphToken("anthrope",  {"NOUN", "VOCATIVE"})
ArtNom    == MorphToken("to_nom",    {"ARTICLE", "NOMINATIVE", "NEUTER", "SINGULAR"})
ArtAcc    == MorphToken("to",        {"ARTICLE", "ACCUSATIVE", "NEUTER", "SINGULAR"})
ArtGen    == MorphToken("tou",       {"ARTICLE", "GENITIVE"})
ArtGenF   == MorphToken("tes",       {"ARTICLE", "GENITIVE", "FEMININE", "SINGULAR"})
AdjAcc    == MorphToken("agathon",   {"ADJECTIVE", "ACCUSATIVE"})
PartGen   == MorphToken("legontos",  {"PARTICIPLE", "GENITIVE", "MASCULINE", "SINGULAR"})
PartNom   == MorphToken("legon",     {"PARTICIPLE", "NOMINATIVE", "MASCULINE", "SINGULAR"})
Inf       == MorphToken("legein",    {"INFINITIVE", "NEUTER", "SINGULAR"})

\* All slices of at most n tokens drawn from the vocabulary V.
Inputs(V, n) == UNION { [1..k -> V] : k \in 0..n }

\* The sentences of the unit tests of syntax.rs, and a sentence that ends
\* with a punctuation token (empty flags), as analyze_core passes them.
TestSentences ==
    { \* test_simple_svo
      << MorphToken("O", {"NOMINATIVE", "MASCULINE", "SINGULAR", "ARTICLE"}),
         MorphToken("Petros", {"NOMINATIVE", "MASCULINE", "SINGULAR", "NOUN"}),
         MorphToken("blepei", {"PRESENT", "ACTIVE", "THIRD_PERSON"}),
         MorphToken("ten", {"ACCUSATIVE", "FEMININE", "SINGULAR", "ARTICLE"}),
         MorphToken("Marian", {"ACCUSATIVE", "FEMININE", "SINGULAR", "NOUN"}) >>,
      \* test_prepositional_phrase
      << MorphToken("menei", {"PRESENT", "ACTIVE", "THIRD_PERSON"}),
         MorphToken("apo", {"PREPOSITION"}),
         MorphToken("tes", {"GENITIVE", "FEMININE", "SINGULAR", "ARTICLE"}),
         MorphToken("oikias", {"GENITIVE", "FEMININE", "SINGULAR", "NOUN"}) >>,
      \* test_dative_indirect_object
      << MorphToken("O", {"NOMINATIVE", "ARTICLE"}),
         MorphToken("didaskalos", {"NOMINATIVE", "NOUN"}),
         MorphToken("didei", {"PRESENT", "ACTIVE"}),
         MorphToken("to", {"ACCUSATIVE", "ARTICLE"}),
         MorphToken("biblion", {"ACCUSATIVE", "NOUN"}),
         MorphToken("to_dat", {"DATIVE", "ARTICLE"}),
         MorphToken("mathete", {"DATIVE", "NOUN"}) >>,
      \* test_genitive_modifier
      << MorphToken("blepo", {"PRESENT", "ACTIVE"}),
         MorphToken("ten", {"ACCUSATIVE", "ARTICLE"}),
         MorphToken("oikian", {"ACCUSATIVE", "NOUN"}),
         MorphToken("tou", {"GENITIVE", "ARTICLE"}),
         MorphToken("patros", {"GENITIVE", "NOUN"}) >>,
      \* test_coordination
      << MorphToken("O", {"NOMINATIVE", "ARTICLE"}),
         MorphToken("didaskalos", {"NOMINATIVE", "NOUN"}),
         MorphToken("kai", {"CONJUNCTION"}),
         MorphToken("o", {"NOMINATIVE", "ARTICLE"}),
         MorphToken("mathetes", {"NOMINATIVE", "NOUN"}) >>,
      \* test_passive_agent
      << MorphToken("ballomai", {"VERB", "PASSIVE"}),
         MorphToken("upo", {"PREPOSITION"}),
         MorphToken("tou", {"GENITIVE", "ARTICLE"}),
         MorphToken("anthropou", {"GENITIVE", "NOUN"}) >>,
      \* test_genitive_absolute
      << MorphToken("ephugon", {"VERB"}),
         MorphToken("tou", {"GENITIVE", "ARTICLE"}),
         MorphToken("anthropou", {"GENITIVE", "NOUN"}),
         MorphToken("legontos", {"GENITIVE", "PARTICIPLE", "MASCULINE", "SINGULAR"}) >>,
      \* test_infinitive_complement
      << MorphToken("lego", {"VERB"}),
         MorphToken("auton", {"ACCUSATIVE", "NOUN"}),
         MorphToken("einai", {"INFINITIVE"}) >>,
      \* test_articular_infinitive
      << MorphToken("blepo", {"VERB"}),
         MorphToken("to", {"ACCUSATIVE", "ARTICLE", "NEUTER", "SINGULAR"}),
         MorphToken("legein", {"INFINITIVE", "NEUTER", "SINGULAR"}) >>,
      \* test_relative_clause (reordered, verb first)
      << MorphToken("trechei", {"VERB", "PRESENT", "ACTIVE"}),
         MorphToken("O", {"ARTICLE", "NOMINATIVE"}),
         MorphToken("anthropos", {"NOUN", "NOMINATIVE"}),
         MorphToken("os", {"RELATIVE", "PRONOUN", "NOMINATIVE"}),
         MorphToken("blepei", {"VERB", "PRESENT", "ACTIVE"}),
         MorphToken("me", {"PRONOUN", "ACCUSATIVE"}) >>,
      \* a sentence closed by a full stop
      << MorphToken("menei", {"PRESENT", "ACTIVE", "THIRD_PERSON"}),
         MorphToken("o", {"NOMINATIVE", "ARTICLE"}),
         MorphToken("anthropos", {"NOUN", "NOMINATIVE"}),
         MorphToken(".", {}) >> }

-----------------------------------------------------------------------------
(* Reading the state.                                                      *)

InRange(k) == k < Len(tokens)

\* tokens[k]; an index out of range is a panic, recorded in oob by the
\* action that makes the access.
Tok(k) == IF InRange(k) THEN tokens[k + 1] ELSE MorphToken("", {})

SeqContains(s, x) == \E k \in 1..Len(s) : s[k] = x

Min(S) == CHOOSE x \in S : \A y \in S : x <= y

\* Option::unwrap_or
UnwrapOr(opt, d) == IF opt = << >> THEN d ELSE opt[1]

\* Mutant: the scan does not stop at the first verb and keeps the last one.
root_idx_LastVerb(ts) ==
    LET verbs == { k \in 0..(Len(ts) - 1) : is_verb(ts[k + 1]) }
    IN  IF verbs = {} THEN << >>
        ELSE << CHOOSE k \in verbs : \A m \in verbs : m <= k >>

\* The first is_verb token, if any (the scan that opens parse_greedy).
root_idx(ts) ==
    LET verbs == { k \in 0..(Len(ts) - 1) : is_verb(ts[k + 1]) }
    IN  IF verbs = {} THEN << >> ELSE << Min(verbs) >>

-----------------------------------------------------------------------------
(* Decisions of the per-token dispatch, one operator per decision.         *)

\* Mutant: the voice is read from the sentence root, not from the clause in
\* scope.
is_passive_agent_RootVoice(k) ==
    /\ Tok(k).text = "upo" \/ Tok(k).text = "hupo"
    /\ "PASSIVE" \in Tok(root).flags

\* Role of a preposition edge.  The && of the source short-circuits: the
\* clause head is read only when the text matches.
is_passive_agent(k) ==
    /\ Tok(k).text = "upo" \/ Tok(k).text = "hupo"
    /\ "PASSIVE" \in Tok(current_clause_head).flags

PrepositionRole(k) == IF is_passive_agent(k) THEN "PassiveAgent" ELSE "Modifier"

\* Mutant: the conjunction always hangs from the clause head.
ConjunctionHead_ClauseHead == current_clause_head

\* Head of a conjunction: the last noun, else the clause head.
ConjunctionHead == UnwrapOr(last_noun_idx, current_clause_head)

\* Role of the relative pronoun under the verb of its clause.
RelativePronounRole(pronoun_idx) ==
    IF "NOMINATIVE" \in Tok(pronoun_idx).flags THEN "Subject"
    ELSE IF "ACCUSATIVE" \in Tok(pronoun_idx).flags THEN "Object"
    ELSE "Modifier"

\* Mutant: the scope stays at the sentence root.
RelativeClauseHead_Root(k) == root

\* The scope set by a secondary verb that closes a relative clause.
RelativeClauseHead(k) == k

is_nominal(t) == has_case(t) \/ "INFINITIVE" \in t.flags

\* Variant used to test a claim below: only a Noun is a head.
is_head_noun_NounOnly(t) == "NOUN" \in t.flags

is_head_noun(t) ==
    \/ "NOUN" \in t.flags
    \/ ~("ARTICLE" \in t.flags) /\ ~("ADJECTIVE" \in t.flags)

\* The pending modifiers that agree with head noun k, in order.
matched_modifiers(k) ==
    LET Agrees(m) == check_agreement(Tok(m), Tok(k))
    IN  SelectSeq(pending_modifiers, Agrees)

\* Mutant: the matched modifiers are not removed from the list.
RetainUnmatched_KeepAll(matched) == pending_modifiers

\* pending_modifiers.retain(|idx| !matched.contains(idx))
RetainUnmatched(matched) ==
    LET Keep(m) == ~SeqContains(matched, m)
    IN  SelectSeq(pending_modifiers, Keep)

\* The Modifier edges of the matched modifiers, appended in order.
ModifierEdges(k, matched) ==
    [ j \in 1..Len(matched) |-> Dependency(k, matched[j], "Modifier") ]

\* Genitive participle after an agreeing genitive noun.
is_gen_abs(k) ==
    /\ "GENITIVE" \in Tok(k).flags
    /\ last_noun_idx # << >>
    /\ "GENITIVE" \in Tok(last_noun_idx[1]).flags
    /\ check_agreement(Tok(k), Tok(last_noun_idx[1]))

\* Mutant: the relinked noun is made its own head (the two indices mixed up).
RelinkGenAbs_SelfHead(ds, prev_noun_idx, k) ==
    LET hits == { j \in 1..Len(ds) : ds[j].dependent_index = prev_noun_idx }
    IN  IF hits = {} THEN ds
        ELSE [ ds EXCEPT ![Min(hits)].head_index = prev_noun_idx,
                         ![Min(hits)].role = "Subject" ]

\* Mutant: the RELINK appends the new edge and leaves the old one in place.
RelinkGenAbs_Append(ds, prev_noun_idx, k) ==
    Append(ds, Dependency(k, prev_noun_idx, "Subject"))

\* RELINK of the genitive absolute: the first edge whose dependent is
\* prev_noun_idx gets head k and role Subject.
RelinkGenAbs(ds, prev_noun_idx, k) ==
    LET hits == { j \in 1..Len(ds) : ds[j].dependent_index = prev_noun_idx }
    IN  IF hits = {} THEN ds
        ELSE [ ds EXCEPT ![Min(hits)].head_index = k, ![Min(hits)].role = "Subject" ]

\* Mutant: the absolute clause hangs from the sentence root.
AbsoluteClauseHead_Root == root

\* Head of the participle of a genitive absolute: the clause in scope.
AbsoluteClauseHead == current_clause_head

\* Head of a participle that opens no genitive absolute.
ParticipleHead(k) ==
    IF last_noun_idx # << >>
    THEN IF check_agreement(Tok(k), Tok(last_noun_idx[1]))
         THEN last_noun_idx[1]
         ELSE current_clause_head
    ELSE root

is_articular(matched) ==
    \E j \in 1..Len(matched) : "ARTICLE" \in Tok(matched[j]).flags

ArticularRole(matched) ==
    IF \E j \in 1..Len(matched) : "NOMINATIVE" \in Tok(matched[j]).flags
    THEN "Subject" ELSE "Object"

\* Mutant: the edge of an Accusative last noun is rewritten whatever its
\* head and role.
RelinkInfinitive_AnyEdge(ds, k) ==
    IF last_noun_idx # << >> /\ "ACCUSATIVE" \in Tok(last_noun_idx[1]).flags
    THEN LET hits == { j \in 1..Len(ds) :
                         ds[j].dependent_index = last_noun_idx[1] }
         IN  IF hits = {} THEN ds
             ELSE [ ds EXCEPT ![Min(hits)].head_index = k,
                              ![Min(hits)].role = "Subject" ]
    ELSE ds

\* Mutant: the relinked edge is taken out of the list and appended anew.
RelinkInfinitive_MoveToEnd(ds, k) ==
    IF last_noun_idx # << >> /\ "ACCUSATIVE" \in Tok(last_noun_idx[1]).flags
    THEN LET hits == { j \in 1..Len(ds) :
                         /\ ds[j].dependent_index = last_noun_idx[1]
                         /\ ds[j].head_index = current_clause_head
                         /\ ds[j].role = "Object" }
         IN  IF hits = {} THEN ds
             ELSE Append(SubSeq(ds, 1, Min(hits) - 1)
                            \o SubSeq(ds, Min(hits) + 1, Len(ds)),
                         Dependency(k, last_noun_idx[1], "Subject"))
    ELSE ds

\* RELINK of the bare infinitive: when the last noun is Accusative, the
\* first edge (current_clause_head -> last noun, Object) gets head k and
\* role Subject.
RelinkInfinitive(ds, k) ==
    IF last_noun_idx # << >> /\ "ACCUSATIVE" \in Tok(last_noun_idx[1]).flags
    THEN LET hits == { j \in 1..Len(ds) :
                         /\ ds[j].dependent_index = last_noun_idx[1]
                         /\ ds[j].head_index = current_clause_head
                         /\ ds[j].role = "Object" }
         IN  IF hits = {} THEN ds
             ELSE [ ds EXCEPT ![Min(hits)].head_index = k,
                              ![Min(hits)].role = "Subject" ]
    ELSE ds

\* Mutant: the preposition stays open after it got its argument.
ClosedPreposition_StaysOpen == open_preposition_idx

\* The preposition slot after its argument was found: open_preposition_idx = None.
ClosedPreposition == << >>

\* Mutant: a genitive noun always hangs from the clause head.
GenitiveHead_ClauseHead == current_clause_head

\* Head of a genitive noun: the last noun, else the clause head.
GenitiveHead == UnwrapOr(last_noun_idx, current_clause_head)

\* Variant used to test a claim below: the infinitive hangs from the
\* sentence root.
ComplementHead_Root == root

\* Head of a bare infinitive: the clause in scope.
ComplementHead == current_clause_head

\* Variant used to test a claim below: the Conjunct closes the preposition.
ConjunctPreposition_Closed == << >>

\* The preposition slot after a head noun was attached as Conjunct: the
\* branch does not touch it.
ConjunctPreposition == open_preposition_idx

\* Step 2 of the head-noun branch: attach head noun k.  ds is the edge list
\* after the modifier edges.  Gives the new edge list and the new values of
\* the preposition and coordination slots.
AttachHeadNoun(k, ds, matched) ==
    LET f == Tok(k).flags
        Push(h, r) == Append(ds, Dependency(h, k, r))
        Keep(d) == [ deps |-> d, prep |-> open_preposition_idx,
                     coord |-> active_coordination_head ]
    IN  IF active_coordination_head # << >> THEN
            [ deps |-> Push(active_coordination_head[1], "Conjunct"),
              prep |-> ConjunctPreposition, coord |-> << >> ]
        ELSE IF open_preposition_idx # << >> THEN
            [ deps |-> Push(open_preposition_idx[1], "PrepositionArg"),
              prep |-> ClosedPreposition, coord |-> active_coordination_head ]
        ELSE IF "PARTICIPLE" \in f THEN
            IF is_gen_abs(k)
            THEN Keep(Append(RelinkGenAbs(ds, last_noun_idx[1], k),
                             Dependency(AbsoluteClauseHead, k, "AbsoluteClause")))
            ELSE Keep(Push(ParticipleHead(k), "Modifier"))
        ELSE IF "INFINITIVE" \in f THEN
            IF is_articular(matched)
            THEN IF open_preposition_idx # << >>
                 THEN [ deps |-> Push(open_preposition_idx[1], "PrepositionArg"),
                        prep |-> << >>, coord |-> active_coordination_head ]
                 ELSE Keep(Push(current_clause_head, ArticularRole(matched)))
            ELSE Keep(Append(RelinkInfinitive(ds, k),
                             Dependency(ComplementHead, k, "Complement")))
        ELSE IF "NOMINATIVE" \in f THEN Keep(Push(current_clause_head, "Subject"))
        ELSE IF "ACCUSATIVE" \in f THEN Keep(Push(current_clause_head, "Object"))
        ELSE IF "GENITIVE" \in f THEN Keep(Push(GenitiveHead, "Modifier"))
        ELSE IF "DATIVE" \in f THEN Keep(Push(current_clause_head, "IndirectObject"))
        ELSE Keep(Push(current_clause_head, "Modifier"))

\* Variant used to test a claim below: the first head noun stays the last
\* noun.
TrackedNoun_First(k) == IF last_noun_idx = << >> THEN << k >> ELSE last_noun_idx

\* last_noun_idx = Some(i), at the end of the head-noun branch.
TrackedNoun(k) == << k >>

\* The token indices the head-noun branch reads for head noun k.
HeadNounReads(k) ==
    { pending_modifiers[j] : j \in 1..Len(pending_modifiers) }
    \cup ( IF /\ active_coordination_head = << >>
              /\ open_preposition_idx = << >>
              /\ last_noun_idx # << >>
              /\ \/ "PARTICIPLE" \in Tok(k).flags
                 \/ "INFINITIVE" \in Tok(k).flags
                    /\ ~is_articular(matched_modifiers(k))
           THEN { last_noun_idx[1] } ELSE {} )

-----------------------------------------------------------------------------
(* The state machine.                                                      *)

\* The tokenizer is not running.
LexIdle ==
    /\ original_input = << >>
    /\ input = << >>
    /\ result = << >>
    /\ lex_tokens = << >>
    /\ lex_pc = "idle"

\* resolve_morphology is not running.
ResolverIdle ==
    /\ token_text = << >>
    /\ known_lemma_id = << >>
    /\ analysis = << >>
    /\ morph_pc = "idle"

\* No dictionary is loaded and the resolver is not running.
MorphIdle ==
    /\ dict = [lemmas |-> << >>, paradigms |-> << >>]
    /\ ResolverIdle

\* No store is in use.
StoreIdle ==
    /\ world = [components |-> << >>, archetype |-> << >>]
    /\ ecs = [pc |-> "idle"]

\* No graph is loaded and no search is running.
GraphIdle ==
    /\ graph = [nodes |-> << >>, edges |-> << >>]
    /\ search = [pc |-> "idle"]

\* No analysis is running.
EngineIdle == analyses = << >>

CoreIdle == StoreIdle /\ GraphIdle /\ EngineIdle

\* The parser is not running.
ParseIdle ==
    /\ tokens = << >>
    /\ pc = "idle"
    /\ i = 0
    /\ root = 0
    /\ deps = << >>
    /\ open_preposition_idx = << >>
    /\ pending_modifiers = << >>
    /\ last_noun_idx = << >>
    /\ active_coordination_head = << >>
    /\ pending_relative_clause = << >>
    /\ current_clause_head = 0
    /\ oob = FALSE

\* On entry: the input is given, nothing has run.  The inputs are every
\* slice made of a prefix of P and at most n tokens of V, and the sentences
\* of the unit tests.
InitFrom(P, V, n) ==
    /\ tokens \in { p \o s : p \in P, s \in Inputs(V, n) } \cup TestSentences
    /\ pc = "start"
    /\ i = 0
    /\ root = 0
    /\ deps = << >>
    /\ open_preposition_idx = << >>
    /\ pending_modifiers = << >>
    /\ last_noun_idx = << >>
    /\ active_coordination_head = << >>
    /\ pending_relative_clause = << >>
    /\ current_clause_head = 0
    /\ oob = FALSE
    /\ LexIdle
    /\ MorphIdle
    /\ CoreIdle

\* Root identification and the initial values of the pass.
FindRoot ==
    /\ pc = "start"
    /\ pc' = "loop"
    /\ root' = UnwrapOr(root_idx(tokens), 0)
    /\ current_clause_head' = root'
    /\ i' = 0
    /\ deps' = << >>
    /\ open_preposition_idx' = << >>
    /\ pending_modifiers' = << >>
    /\ last_noun_idx' = << >>
    /\ active_coordination_head' = << >>
    /\ pending_relative_clause' = << >>
    /\ UNCHANGED << tokens, oob, lexvars, morphvars, corevars >>

\* Mutant: the loop bound is off by one.
InLoop_OffByOne == pc = "loop" /\ i <= Len(tokens) /\ ~oob

\* One iteration of the main loop is enabled while tokens remain and no
\* access has panicked.
InLoop == pc = "loop" /\ i < Len(tokens) /\ ~oob

Advance == i' = i + 1 /\ UNCHANGED << tokens, pc, root, lexvars, morphvars, corevars >>

\* i == root: continue.
SkipRoot ==
    /\ InLoop
    /\ i = root
    /\ Advance
    /\ UNCHANGED << deps, open_preposition_idx, pending_modifiers, last_noun_idx,
                    active_coordination_head, pending_relative_clause,
                    current_clause_head, oob >>

Preposition ==
    /\ InLoop
    /\ i # root
    /\ "PREPOSITION" \in Tok(i).flags
    /\ deps' = Append(deps, Dependency(current_clause_head, i, PrepositionRole(i)))
    /\ open_preposition_idx' = << i >>
    /\ oob' = ( /\ Tok(i).text = "upo" \/ Tok(i).text = "hupo"
                /\ ~InRange(current_clause_head) )
    /\ Advance
    /\ UNCHANGED << pending_modifiers, last_noun_idx, active_coordination_head,
                    pending_relative_clause, current_clause_head >>

Conjunction ==
    /\ InLoop
    /\ i # root
    /\ ~("PREPOSITION" \in Tok(i).flags)
    /\ "CONJUNCTION" \in Tok(i).flags
    /\ deps' = Append(deps, Dependency(ConjunctionHead, i, "Coordinator"))
    /\ active_coordination_head' = << ConjunctionHead >>
    /\ Advance
    /\ UNCHANGED << open_preposition_idx, pending_modifiers, last_noun_idx,
                    pending_relative_clause, current_clause_head, oob >>

NotFunctionWord(t) ==
    /\ ~("PREPOSITION" \in t.flags)
    /\ ~("CONJUNCTION" \in t.flags)

RelativePronoun ==
    /\ InLoop
    /\ i # root
    /\ NotFunctionWord(Tok(i))
    /\ "RELATIVE" \in Tok(i).flags
    /\ pending_relative_clause' =
          IF last_noun_idx # << >> THEN << << i, last_noun_idx[1] >> >>
          ELSE pending_relative_clause
    /\ Advance
    /\ UNCHANGED << deps, open_preposition_idx, pending_modifiers, last_noun_idx,
                    active_coordination_head, current_clause_head, oob >>

SecondaryVerb ==
    /\ InLoop
    /\ i # root
    /\ NotFunctionWord(Tok(i))
    /\ ~("RELATIVE" \in Tok(i).flags)
    /\ is_verb(Tok(i))
    /\ IF pending_relative_clause # << >>
       THEN LET pronoun_idx    == pending_relative_clause[1][1]
                antecedent_idx == pending_relative_clause[1][2]
            IN  /\ deps' = deps \o
                     << Dependency(antecedent_idx, i, "RelativeClause"),
                        Dependency(i, pronoun_idx, RelativePronounRole(pronoun_idx)) >>
                /\ current_clause_head' = RelativeClauseHead(i)
                /\ pending_relative_clause' = << >>
                /\ oob' = ~InRange(pronoun_idx)
       ELSE UNCHANGED << deps, current_clause_head, pending_relative_clause, oob >>
    /\ Advance
    /\ UNCHANGED << open_preposition_idx, pending_modifiers, last_noun_idx,
                    active_coordination_head >>

\* Reaches the nominal test: none of the earlier branches took the token.
ReachesNominal ==
    /\ InLoop
    /\ i # root
    /\ NotFunctionWord(Tok(i))
    /\ ~("RELATIVE" \in Tok(i).flags)
    /\ ~is_verb(Tok(i))

HeadNoun ==
    /\ ReachesNominal
    /\ is_nominal(Tok(i))
    /\ is_head_noun(Tok(i))
    /\ LET matched == matched_modifiers(i)
           att     == AttachHeadNoun(i, deps \o ModifierEdges(i, matched), matched)
       IN  /\ deps' = att.deps
           /\ open_preposition_idx' = att.prep
           /\ active_coordination_head' = att.coord
           /\ pending_modifiers' = RetainUnmatched(matched)
    /\ last_noun_idx' = TrackedNoun(i)
    /\ oob' = (\E k \in HeadNounReads(i) : ~InRange(k))
    /\ Advance
    /\ UNCHANGED << pending_relative_clause, current_clause_head >>

\* An Article or Adjective: kept for the next head noun.
PendingModifier ==
    /\ ReachesNominal
    /\ is_nominal(Tok(i))
    /\ ~is_head_noun(Tok(i))
    /\ pending_modifiers' = Append(pending_modifiers, i)
    /\ Advance
    /\ UNCHANGED << deps, open_preposition_idx, last_noun_idx,
                    active_coordination_head, pending_relative_clause,
                    current_clause_head, oob >>

\* No case and no Infinitive: the token gets no edge.
Unattached ==
    /\ ReachesNominal
    /\ ~is_nominal(Tok(i))
    /\ Advance
    /\ UNCHANGED << deps, open_preposition_idx, pending_modifiers, last_noun_idx,
                    active_coordination_head, pending_relative_clause,
                    current_clause_head, oob >>

\* End of the slice: deps is returned.
Return ==
    /\ pc = "loop"
    /\ i = Len(tokens)
    /\ ~oob
    /\ pc' = "done"
    /\ UNCHANGED << tokens, i, root, deps, open_preposition_idx, pending_modifiers,
                    last_noun_idx, active_coordination_head,
                    pending_relative_clause, current_clause_head, oob,
                    lexvars, morphvars, corevars >>

Next ==
    \/ FindRoot
    \/ SkipRoot
    \/ Preposition
    \/ Conjunction
    \/ RelativePronoun
    \/ SecondaryVerb
    \/ HeadNoun
    \/ PendingModifier
    \/ Unattached
    \/ Return

\* Vocabulary of the structural claims: verbs, relative clauses,
\* coordination, pending modifiers and both RELINK rules (prepositions come
\* with the test sentences).
Vocabulary ==
    { VerbAct, Conj, RelNom, NounGen, NounAcc, ArtGen, PartGen, Inf }

Init == InitFrom({ << >> }, Vocabulary, MaxLen)

Spec == Init /\ [][Next]_vars

\* Vocabulary of the totality claim: everything a sentence can end with
\* while a slot is still open.
VocabularyTotal ==
    { VerbAct, PrepUpo, Conj, RelNom, NounGen, ArtGen, Inf }

InitTotal == InitFrom({ << >> }, VocabularyTotal, MaxLen)

SpecTotal == InitTotal /\ [][Next]_vars

\* Verb-initial sentences with a nominative noun, for the relative clause.
VocabularyRel ==
    { VerbAct, RelNom, RelAcc, RelGen, NounNom, NounAcc, NounDat, Conj, PrepApo,
      PartNom, ArtNom }

InitRel == InitFrom({ << VerbAct, NounNom >> }, VocabularyRel, MaxRest)

SpecRel == InitRel /\ [][Next]_vars

\* Verb-initial sentences for the genitive absolute.
VocabularyGenAbs ==
    { VerbAct, PrepApo, Conj, RelNom, NounGen, NounGenF, NounAcc, ArtGen,
      PartGen, PartNom }

InitGenAbs == InitFrom({ << VerbAct >> }, VocabularyGenAbs, MaxRest)

SpecGenAbs == InitGenAbs /\ [][Next]_vars

\* Verb-initial sentences for the infinitive rules.
VocabularyInf ==
    { VerbAct, PrepApo, Conj, RelNom, NounAcc, NounNom, ArtNom, ArtAcc, ArtGenF,
      AdjAcc, Inf }

InitInf == InitFrom({ << VerbAct >> }, VocabularyInf, MaxRest)

SpecInf == InitInf /\ [][Next]_vars

\* Sentences opened by an active or a passive verb, for the prepositions.
VocabularyPrep ==
    { VerbAct, VerbPass, PrepUpo, PrepHupo, PrepApo, Conj, RelNom, NounNom,
      NounGen, ArtGen }

InitPrep == InitFrom({ << VerbAct >>, << VerbPass >> }, VocabularyPrep, MaxRest)

SpecPrep == InitPrep /\ [][Next]_vars

\* Verb-initial sentences with nouns of every case, for the case rules.
VocabularyCase ==
    { VerbAct, PrepApo, Conj, RelNom, NounNom, NounAcc, NounGen, NounDat,
      NounVoc, ArtGen }

InitCase == InitFrom({ << VerbAct >> }, VocabularyCase, MaxRest)

SpecCase == InitCase /\ [][Next]_vars

\* Verb-initial sentences for both RELINK rules together.
VocabularyRelink ==
    { VerbAct, PrepApo, Conj, RelNom, NounGen, NounAcc, ArtGen, AdjAcc, PartGen,
      Inf }

InitRelink == InitFrom({ << VerbAct >> }, VocabularyRelink, MaxRest)

SpecRelink == InitRelink /\ [][Next]_vars

\* Tokens with verb flags next to other flags: a participle with tense,
\* voice and case, and a relative pronoun with a person.
VerbCase  == MorphToken("legon_pres", {"PARTICIPLE", "NOMINATIVE", "PRESENT", "ACTIVE"})
RelThird  == MorphToken("os_3", {"RELATIVE", "PRONOUN", "NOMINATIVE", "THIRD_PERSON"})

\* Sentences with and without a verb, the first verb at any place.
VocabularyVerbs == { VerbAct, VerbCase, RelNom, RelThird, NounNom, ArtNom }

InitVerbs == InitFrom({ << >> }, VocabularyVerbs, MaxLen)

SpecVerbs == InitVerbs /\ [][Next]_vars

\* Sentences that go on after a relative clause: the root, a noun, a
\* relative pronoun and the verb of the clause, then tokens of every
\* clause-level rule and a second relative clause.
VocabularyClause ==
    { VerbAct, PrepApo, RelNom, NounAcc, NounDat, NounGen, NounVoc, PartGen, Inf }

InitClause == InitFrom({ << VerbAct, NounNom, RelNom, VerbAct >> }, VocabularyClause, MaxRest)

SpecClause == InitClause /\ [][Next]_vars

-----------------------------------------------------------------------------
(* Text.  A &str is modelled as the sequence of its Unicode scalars, each  *)
(* a code point; its bytes are the UTF-8 encoding, one entry <<c, k>> per  *)
(* byte: the k-th byte of scalar c.  Offsets and lengths of the source are *)
(* byte offsets and byte lengths.                                          *)

\* char::len_utf8
len_utf8(c) ==
    IF c < 128 THEN 1 ELSE IF c < 2048 THEN 2 ELSE IF c < 65536 THEN 3 ELSE 4

RECURSIVE as_bytes(_)
as_bytes(s) ==
    IF s = << >> THEN << >>
    ELSE [ k \in 1..len_utf8(Head(s)) |-> << Head(s), k >> ] \o as_bytes(Tail(s))

\* str::len
str_len(s) == Len(as_bytes(s))

\* str::is_char_boundary
is_char_boundary(s, n) ==
    \/ n = 0
    \/ LET bytes == as_bytes(s)
       IN  \/ n = Len(bytes)
           \/ n > 0 /\ n < Len(bytes) /\ bytes[n + 1][2] = 1

\* &s[a..b] does not panic.
slice_ok(s, a, b) ==
    /\ a <= b
    /\ b <= str_len(s)
    /\ is_char_boundary(s, a)
    /\ is_char_boundary(s, b)

\* &s[a..b]: the scalars encoded by the bytes a .. b-1.
str_slice(s, a, b) ==
    LET bytes == SubSeq(as_bytes(s), a + 1, b)
        IsFirst(x) == x[2] = 1
        firsts == SelectSeq(bytes, IsFirst)
    IN  [ k \in 1..Len(firsts) |-> firsts[k][1] ]

\* str::starts_with
starts_with(s, prefix) ==
    Len(prefix) <= Len(s) /\ SubSeq(s, 1, Len(prefix)) = prefix

\* str::ends_with
ends_with(s, suffix) ==
    /\ Len(suffix) <= Len(s)
    /\ SubSeq(s, Len(s) - Len(suffix) + 1, Len(s)) = suffix

\* All texts of at most n scalars of the alphabet A.
Texts(A, n) == UNION { [1..k -> A] : k \in 0..n }

-----------------------------------------------------------------------------
(* The tokenizer: parse_with_spans (parser.rs).                            *)

\* Longest text enumerated for the tokenizer.
MaxChars == 4

\* char::is_alphabetic outside the Greek blocks, on the scalars of the
\* inputs: the Latin letters are alphabetic; digits, signs and spaces are
\* not.
is_alphabetic(c) == (c >= 65 /\ c <= 90) \/ (c >= 97 /\ c <= 122)

\* Mutant: the Greek Extended block is left out.
is_greek_alphabetic_BasicOnly(c) ==
    \/ c >= 880 /\ c <= 1023
    \/ is_alphabetic(c)

is_greek_alphabetic(c) ==
    \/ c >= 880 /\ c <= 1023
    \/ c >= 7936 /\ c <= 8191
    \/ is_alphabetic(c)

\* The characters nom's multispace0 accepts: space, tab, line feed,
\* carriage return.
is_multispace(c) == c \in { 32, 9, 10, 13 }

\* The characters of the five char(..) branches: . , ; ? !
punctuation == { 46, 44, 59, 63, 33 }

\* multispace0: the input after its leading whitespace.
RECURSIVE multispace0(_)
multispace0(s) ==
    IF s # << >> /\ is_multispace(Head(s)) THEN multispace0(Tail(s)) ELSE s

\* The number of leading scalars take_while1(is_greek_alphabetic) takes.
RECURSIVE take_while(_)
take_while(s) ==
    IF s # << >> /\ is_greek_alphabetic(Head(s)) THEN 1 + take_while(Tail(s)) ELSE 0

RawWord(s) == [kind |-> "Word", s |-> s]

RawPunct(c) == [kind |-> "Punct", c |-> c]

Span(start, end) == [start |-> start, end |-> end]

\* alt((take_while1 .., char('.'), ..)) on a non-empty input: Ok as
\* << (next_input, token) >>, Err as << >>.
parse_res(s) ==
    LET n == take_while(s)
    IN  IF n > 0
        THEN << [next_input |-> SubSeq(s, n + 1, Len(s)),
                 token |-> RawWord(SubSeq(s, 1, n))] >>
        ELSE IF Head(s) \in punctuation
        THEN << [next_input |-> Tail(s), token |-> RawPunct(Head(s))] >>
        ELSE << >>

\* Mutant: the offset is counted in scalars, not in bytes.
span_start_Scalars(s) == Len(original_input) - Len(s)

\* input.as_ptr() - original_input.as_ptr(): s is a suffix of the text.
span_start(s) == str_len(original_input) - str_len(s)

\* Mutant: the recovery does not move.
skip_char_Stuck(s) == s

\* Recovery: the input after its first scalar.
skip_char(s) == Tail(s)

\* The loop stops: nothing but whitespace is left.
ScanBreak ==
    /\ lex_pc = "scan"
    /\ multispace0(input) = << >>
    /\ input' = << >>
    /\ lex_pc' = "scanned"
    /\ UNCHANGED << original_input, result, lex_tokens, parsevars, morphvars, corevars >>

\* One iteration that matches a token.
ScanToken ==
    /\ lex_pc = "scan"
    /\ LET rest == multispace0(input)
       IN  /\ rest # << >>
           /\ parse_res(rest) # << >>
           /\ LET next_input == parse_res(rest)[1].next_input
                  token == parse_res(rest)[1].token
                  len   == str_len(rest) - str_len(next_input)
                  start == span_start(rest)
              IN  /\ result' = Append(result, << Span(start, start + len), token >>)
                  /\ input' = next_input
    /\ UNCHANGED << original_input, lex_tokens, lex_pc, parsevars, morphvars, corevars >>

\* One iteration that matches no token: one scalar is skipped.
ScanRecover ==
    /\ lex_pc = "scan"
    /\ LET rest == multispace0(input)
       IN  /\ rest # << >>
           /\ parse_res(rest) = << >>
           /\ input' = skip_char(rest)
    /\ UNCHANGED << original_input, result, lex_tokens, lex_pc, parsevars, morphvars, corevars >>

-----------------------------------------------------------------------------
(* The lexer: Lexer::tokenize and Lexer::lookup_lemma (lib.rs).            *)

Lemma(id, text) == [id |-> id, text |-> text]

Dictionary(lemmas, paradigms) == [lemmas |-> lemmas, paradigms |-> paradigms]

KindWord(id) == [kind |-> "Word", id |-> id]

KindUnknownWord == [kind |-> "UnknownWord"]

KindPunctuation(c) == [kind |-> "Punctuation", c |-> c]

Token(span, text, kind) == [span |-> span, text |-> text, kind |-> kind]

\* Mutant: only an exact match counts.
lemma_matches_ExactOnly(stem, surface_form) == stem = surface_form

\* The two tests of lookup_lemma on one lemma text.
lemma_matches(stem, surface_form) ==
    \/ stem = surface_form
    \/ starts_with(surface_form, stem)

\* The id of the first lemma of the archive that matches, if any.
lookup_lemma(surface_form) ==
    LET hits == { k \in 1..Len(dict.lemmas) :
                    lemma_matches(dict.lemmas[k].text, surface_form) }
    IN  IF hits = {} THEN << >> ELSE << dict.lemmas[Min(hits)].id >>

\* The kind tokenize gives a raw token.
token_kind(raw) ==
    IF raw.kind = "Punct" THEN KindPunctuation(raw.c)
    ELSE IF lookup_lemma(raw.s) # << >> THEN KindWord(lookup_lemma(raw.s)[1])
    ELSE KindUnknownWord

\* The map over the raw tokens; slicing the text by a span that is no
\* valid range of it panics.
Tokenize ==
    /\ lex_pc = "scanned"
    /\ IF \A k \in 1..Len(result) :
             slice_ok(original_input, result[k][1].start, result[k][1].end)
       THEN /\ lex_tokens' =
                  [ k \in 1..Len(result) |->
                      Token(result[k][1],
                            str_slice(original_input, result[k][1].start,
                                      result[k][1].end),
                            token_kind(result[k][2])) ]
            /\ lex_pc' = "done"
       ELSE /\ lex_tokens' = lex_tokens
            /\ lex_pc' = "panic"
    /\ UNCHANGED << original_input, input, result, parsevars, morphvars, corevars >>

NextLex ==
    \/ ScanBreak
    \/ ScanToken
    \/ ScanRecover
    \/ Tokenize

\* The dictionary and the text of test_tokenizer_integration.
TestDictionary ==
    Dictionary(<< Lemma(10, << 940, 957, 952, 961, 969, 960, 959, 962 >>) >>, << >>)

TestText == << 927, 32, 940, 957, 952, 961, 969, 960, 959, 962, 46 >>

\* On entry of tokenize: the text is one of T, the dictionary one of D.
InitLexFrom(T, D) ==
    /\ original_input \in T \cup { TestText }
    /\ input = original_input
    /\ result = << >>
    /\ lex_tokens = << >>
    /\ lex_pc = "scan"
    /\ dict \in D
    /\ ResolverIdle
    /\ ParseIdle
    /\ CoreIdle

\* Scalars of the texts: a Greek letter (2 bytes), a Greek Extended letter
\* (3 bytes), a Latin letter, a space, a full stop, a semicolon and the
\* euro sign (3 bytes, no token).
Alphabet == { 945, 7936, 97, 32, 46, 59, 8364 }

InitLex == InitLexFrom(Texts(Alphabet, MaxChars), { TestDictionary })

SpecLex == InitLex /\ [][NextLex]_vars

\* The loop of parse_with_spans and the map of tokenize run without
\* waiting on anything: a step that can be taken is taken.
SpecLexFair == SpecLex /\ WF_vars(NextLex)

\* Most lemmas in an enumerated archive.
MaxLemmas == 2

\* Lemmas of the enumerated archives: one text is a prefix of another, one
\* is empty, and the ids do not follow the texts.
LexLemmas ==
    { Lemma(20, << 945 >>), Lemma(10, << 945, 946 >>),
      Lemma(5, << 946 >>), Lemma(30, << >>) }

\* The lists of up to n different lemmas of L, in every order.
LemmaLists(L, n) ==
    UNION { { ls \in [1..k -> L] : \A a, b \in 1..k : a # b => ls[a] # ls[b] } :
            k \in 0..n }

Dictionaries == { Dictionary(ls, << >>) : ls \in LemmaLists(LexLemmas, MaxLemmas) }

\* Scalars of the surface forms: two Greek letters, a full stop and the
\* euro sign.
LookupAlphabet == { 945, 946, 46, 8364 }

InitLookup ==
    InitLexFrom(Texts(LookupAlphabet, MaxChars), Dictionaries \cup { TestDictionary })

\* tokenize over every enumerated archive.
SpecLookup == InitLookup /\ [][NextLex]_vars

-----------------------------------------------------------------------------
(* The morphological resolver: resolve_morphology (morphology.rs).  The    *)
(* flags of an ending are a u32, written as the set of its bits: the names *)
(* of the flags and, for a bit no flag has, "UNDECLARED".  The debug       *)
(* message of an analysis is left out.                                     *)

Paradigm(id, endings) == [id |-> id, endings |-> endings]

MorphAnalysis(flags, lemma_id, stem, kind) ==
    [flags |-> flags, lemma_id |-> lemma_id, stem |-> stem, kind |-> kind]

\* MorphAnalysis::unknown
unknown == MorphAnalysis({}, << >>, << >>, "Unknown")

\* MorphFlags::from_bits_truncate: the bits that are no flag are dropped.
from_bits_truncate(bits) == bits \cap (DeclaredFlags \cup CategoryFlags)

\* Mutant: the hint is ignored.
hint_allows_Any(lemma, known) == TRUE

\* The test at the head of the lemma loop: with a hint, other lemmas are
\* passed over.
hint_allows(lemma, known) == known = << >> \/ lemma.id = known[1]

\* token_text.len() - suffix_str.len()
stem_len(text, suffix) == str_len(text) - str_len(suffix)

\* &token_text[..stem_len] for a suffix the text ends with.
candidate_stem(text, suffix) == str_slice(text, 0, stem_len(text, suffix))

\* The outcome of a call that panics on a slice.
Panicked == [kind |-> "panic"]

\* The loop over the endings of one paradigm for one lemma, from ending k:
\* the analysis of the first match as << a >>, or << >>.
RECURSIVE scan_endings(_, _, _, _)
scan_endings(lemma, endings, text, k) ==
    IF k > Len(endings) THEN << >>
    ELSE IF ~ends_with(text, endings[k][2])
         THEN scan_endings(lemma, endings, text, k + 1)
    ELSE IF ~slice_ok(text, 0, stem_len(text, endings[k][2]))
         THEN << Panicked >>
    ELSE LET stem == candidate_stem(text, endings[k][2])
         IN  IF starts_with(lemma.text, stem)
             THEN << MorphAnalysis(from_bits_truncate(endings[k][1]), << lemma.id >>,
                                   stem, "Word") >>
             ELSE scan_endings(lemma, endings, text, k + 1)

\* The loop over the paradigms for one lemma, from paradigm k.
RECURSIVE scan_paradigms(_, _, _, _)
scan_paradigms(lemma, paradigms, text, k) ==
    IF k > Len(paradigms) THEN << >>
    ELSE LET found == scan_endings(lemma, paradigms[k].endings, text, 1)
         IN  IF found # << >> THEN found
             ELSE scan_paradigms(lemma, paradigms, text, k + 1)

\* The loop over the lemmas, from lemma k.
RECURSIVE scan_lemmas(_, _, _, _)
scan_lemmas(d, text, known, k) ==
    IF k > Len(d.lemmas) THEN << >>
    ELSE LET found == IF hint_allows(d.lemmas[k], known)
                      THEN scan_paradigms(d.lemmas[k], d.paradigms, text, 1)
                      ELSE << >>
         IN  IF found # << >> THEN found
             ELSE scan_lemmas(d, text, known, k + 1)

\* Mutant: only a lemma text that the text is a prefix of is found.
recoverable_TextPrefixOnly(d, text) ==
    { k \in 1..Len(d.lemmas) : starts_with(d.lemmas[k].text, text) }

\* Mutant: only a lemma text that is a prefix of the text is found.
recoverable_LemmaPrefixOnly(d, text) ==
    { k \in 1..Len(d.lemmas) : starts_with(text, d.lemmas[k].text) }

\* The lemmas the last resort finds: prefix-related to the text.
recoverable(d, text) ==
    { k \in 1..Len(d.lemmas) :
        starts_with(text, d.lemmas[k].text) \/ starts_with(d.lemmas[k].text, text) }

\* Mutant: the last resort is tried before the hint.
resolve_morphology_RecoverFirst(d, text, known) ==
    LET found == scan_lemmas(d, text, known, 1)
    IN
    IF found # << >> THEN found[1]
    ELSE IF recoverable(d, text) # {}
    THEN MorphAnalysis({}, << d.lemmas[Min(recoverable(d, text))].id >>, text,
                       "Word (Recovered)")
    ELSE IF known # << >> THEN MorphAnalysis({}, known, text, "Word")
    ELSE unknown

resolve_morphology(d, text, known) ==
    LET found == scan_lemmas(d, text, known, 1)
    IN
    IF found # << >> THEN found[1]
    ELSE IF known # << >> THEN MorphAnalysis({}, known, text, "Word")
    ELSE IF recoverable(d, text) # {}
    THEN MorphAnalysis({}, << d.lemmas[Min(recoverable(d, text))].id >>, text,
                       "Word (Recovered)")
    ELSE unknown

\* One call of resolve_morphology.
Resolve ==
    /\ morph_pc = "call"
    /\ LET a == resolve_morphology(dict, token_text, known_lemma_id)
       IN  IF a = Panicked
           THEN analysis' = analysis /\ morph_pc' = "panic"
           ELSE analysis' = << a >> /\ morph_pc' = "returned"
    /\ UNCHANGED << dict, token_text, known_lemma_id, parsevars, lexvars, corevars >>

NextMorph == Resolve

\* Most endings in an enumerated paradigm.
MaxEndings == 2

\* Most paradigms in an enumerated archive.
MaxParadigms == 2

\* Lemmas of the enumerated archives: one text is a prefix of the other.
MorphLemmas == { Lemma(1, << 945, 946 >>), Lemma(2, << 945 >>) }

\* Endings of the enumerated paradigms: two with the same suffix, one with
\* the empty suffix, one with a bit that is no flag.
Endings ==
    { << { "NOMINATIVE", "SINGULAR" }, << 946 >> >>,
      << { "GENITIVE" }, << >> >>,
      << { "ACCUSATIVE", "UNDECLARED" }, << 946 >> >> }

\* The lists of up to n different endings.
EndingLists(n) ==
    UNION { { es \in [1..k -> Endings] : \A a, b \in 1..k : a # b => es[a] # es[b] } :
            k \in 0..n }

\* The lists of up to n paradigms, numbered in order.
ParadigmLists(n) ==
    UNION { { [ j \in 1..k |-> Paradigm(j, ess[j]) ] : ess \in [1..k -> EndingLists(MaxEndings)] } :
            k \in 0..n }

MorphDictionaries ==
    { Dictionary(ls, ps) : ls \in LemmaLists(MorphLemmas, MaxLemmas),
                           ps \in ParadigmLists(MaxParadigms) }

\* Surface forms: the empty one, the two lemma texts, one that continues a
\* lemma text, one that continues the shorter lemma text only and one that
\* is related to none.
SurfaceForms ==
    { << >>, << 945 >>, << 945, 946 >>, << 945, 946, 946 >>, << 945, 947 >>,
      << 947, 946 >> }

\* Hints: none, the id of a lemma, an id no lemma has.
Hints == { << >>, << 2 >>, << 9 >> }

\* The dictionary and the three calls of test_robust_morphology_resolution.
TestMorphDictionary ==
    Dictionary(<< Lemma(1, << 940, 957, 952, 961, 969, 960, 959, 962 >>) >>,
               << Paradigm(1, << << { "NOMINATIVE", "SINGULAR", "MASCULINE" }, << 959, 962 >> >>,
                                 << { "GENITIVE", "SINGULAR", "MASCULINE" }, << 959, 965 >> >> >>) >>)

TestCalls ==
    { << << 940, 957, 952, 961, 969, 960, 959, 962 >>, << 1 >> >>,
      << << 940, 957, 952, 961, 969, 960, 959, 965 >>, << 1 >> >>,
      << << 940, 955, 959, 947, 959 >>, << >> >> }

\* On entry of resolve_morphology.
InitMorph ==
    /\ \/ /\ dict \in MorphDictionaries
          /\ token_text \in SurfaceForms
          /\ known_lemma_id \in Hints
       \/ /\ dict = TestMorphDictionary
          /\ \E c \in TestCalls : token_text = c[1] /\ known_lemma_id = c[2]
    /\ analysis = << >>
    /\ morph_pc = "call"
    /\ LexIdle
    /\ ParseIdle
    /\ CoreIdle

SpecMorph == InitMorph /\ [][NextMorph]_vars

-----------------------------------------------------------------------------
(* The entity store: LogosWorld over a hecs World (logos-ecs).  An Entity  *)
(* is the number of its spawn, from 0.  The World keeps the components of  *)
(* each entity and the rows of the archetype of the entities that carry a  *)
(* Syntax: a query over Syntax visits them in row order, which is the      *)
(* order of their first insert_one.                                        *)

person_mask == { "FIRST_PERSON", "SECOND_PERSON", "THIRD_PERSON" }

Syntax(head, role) == [head |-> head, role |-> role]

\* The components of one entity: TokenData, Morphology and, once set, Syntax.
Components(text, lemma_id, flags, syntax) ==
    [text |-> text, lemma_id |-> lemma_id, flags |-> flags, syntax |-> syntax]

AgreementError(source, target, details) ==
    [source |-> source, target |-> target, details |-> details]

\* LogosWorld::new
world_new == [components |-> << >>, archetype |-> << >>]

\* The Entity the next spawn returns.
next_entity(w) == Len(w.components)

contains(w, e) == e \in 0..(Len(w.components) - 1)

\* LogosWorld::add_token: the world after the spawn.
add_token(w, text, lemma_id, flags) ==
    [w EXCEPT !.components = Append(@, Components(text, lemma_id, flags, << >>))]

\* Mutant: a second Syntax is kept next to the first.
insert_one_Append(w, child, syn) ==
    [components |-> [w.components EXCEPT ![child + 1].syntax = Append(@, syn)],
     archetype |-> IF w.components[child + 1].syntax = << >>
                   THEN Append(w.archetype, child) ELSE w.archetype]

\* World::insert_one(child, Syntax): the component is added, the entity
\* moving to the end of the archetype with Syntax, or replaced in place.
insert_one(w, child, syn) ==
    [components |-> [w.components EXCEPT ![child + 1].syntax = << syn >>],
     archetype |-> IF w.components[child + 1].syntax = << >>
                   THEN Append(w.archetype, child) ELSE w.archetype]

\* Variant used to test a claim below: the Syntax is put on the head.
set_dependency_OnHead(w, child, head, role) ==
    IF contains(w, head) THEN insert_one(w, head, Syntax(child, role)) ELSE w

\* LogosWorld::set_dependency: the error of insert_one for an entity that
\* does not exist is dropped.
set_dependency(w, child, head, role) ==
    IF contains(w, child) THEN insert_one(w, child, Syntax(head, role)) ELSE w

\* world.get::<&Morphology>(e) and world.get::<&TokenData>(e)
get_morphology(w, e) == IF contains(w, e) THEN << w.components[e + 1].flags >> ELSE << >>

get_text(w, e, default) == IF contains(w, e) THEN w.components[e + 1].text ELSE default

\* Mutant: the number check needs one side to be set only.
mismatch_EitherSet(a, b) == (a # {} \/ b # {}) /\ a # b

\* Both masks are set and differ.
mismatch(a, b) == a # {} /\ b # {} /\ a # b

\* The errors of check_subject_verb_agreement for one row of the query.
subject_verb_errors(w, e) ==
    LET c == w.components[e + 1]
        syntax == c.syntax[1]
    IN  IF syntax.role = "Subject" /\ get_morphology(w, syntax.head) # << >>
        THEN LET verb_flags == get_morphology(w, syntax.head)[1]
                 subj_num == c.flags \cap number_mask
                 verb_num == verb_flags \cap number_mask
                 subj_person == c.flags \cap person_mask
                 verb_person == verb_flags \cap person_mask
                 verb_text == get_text(w, syntax.head, "Unknown Verb")
             IN  (IF mismatch(subj_num, verb_num)
                  THEN << AgreementError(c.text, verb_text,
                                         << "Number mismatch", subj_num, verb_num >>) >>
                  ELSE << >>)
                 \o
                 (IF mismatch(subj_person, verb_person)
                  THEN << AgreementError(c.text, verb_text,
                                         << "Person mismatch", subj_person, verb_person >>) >>
                  ELSE << >>)
        ELSE << >>

\* The errors of check_determiner_agreement for one row of the query.
determiner_errors(w, e) ==
    LET c == w.components[e + 1]
        syntax == c.syntax[1]
    IN  IF syntax.role = "Modifier" /\ get_morphology(w, syntax.head) # << >>
        THEN LET det_num == c.flags \cap number_mask
                 head_num == get_morphology(w, syntax.head)[1] \cap number_mask
             IN  IF mismatch(det_num, head_num)
                 THEN << AgreementError(c.text, get_text(w, syntax.head, "Head"),
                                        << "Agreement Mismatch (Det-Noun)", det_num, head_num >>) >>
                 ELSE << >>
        ELSE << >>

\* Mutant: the loop stops after the first row.
check_subject_verb_agreement_FirstRow(w, k) ==
    IF k > Len(w.archetype) THEN << >> ELSE subject_verb_errors(w, w.archetype[k])

\* The loop of check_subject_verb_agreement over the rows from row k.
RECURSIVE check_subject_verb_agreement(_, _)
check_subject_verb_agreement(w, k) ==
    IF k > Len(w.archetype) THEN << >>
    ELSE subject_verb_errors(w, w.archetype[k]) \o check_subject_verb_agreement(w, k + 1)

\* The loop of check_determiner_agreement over the rows from row k.
RECURSIVE check_determiner_agreement(_, _)
check_determiner_agreement(w, k) ==
    IF k > Len(w.archetype) THEN << >>
    ELSE determiner_errors(w, w.archetype[k]) \o check_determiner_agreement(w, k + 1)

\* check_agreement, which LogosWorld::validate returns.
ecs_check_agreement(w) ==
    check_subject_verb_agreement(w, 1) \o check_determiner_agreement(w, 1)

validate(w) == ecs_check_agreement(w)

\* A caller of the store, as analyze_core and the unit tests are: it adds
\* the tokens of a sentence, keeps the Entity of each, sets dependencies
\* between them and validates.  Token k of the sentence is named by its
\* index k, from 0; a call is an edge (child, head, role) over indices.
TokenSpec(text, lemma_id, flags) == [text |-> text, lemma_id |-> lemma_id, flags |-> flags]

Edge(child, head, role) == [child |-> child, head |-> head, role |-> role]

\* Most dependencies set on one store.
MaxDeps == 2

\* The last call may be repeated.
MaxCalls == MaxDeps + 1

\* The Entity of token k.
entity_of(k) == ecs.entities[k + 1][1]

AllAdded == \A k \in 1..Len(ecs.sentence) : ecs.entities[k] # << >>

\* world.add_token(..) for a token not yet added; the Entity is kept.
AddToken ==
    /\ ecs.pc = "adding"
    /\ \E k \in 1..Len(ecs.sentence) :
          /\ ecs.entities[k] = << >>
          /\ world' = add_token(world, ecs.sentence[k].text, ecs.sentence[k].lemma_id,
                                ecs.sentence[k].flags)
          /\ ecs' = [ecs EXCEPT !.entities[k] = << next_entity(world) >>]
    /\ UNCHANGED << parsevars, lexvars, morphvars, graphvars, analyses >>

\* world.set_dependency(child, head, role) for an edge not yet set, or the
\* last call once more.
SetDependency ==
    /\ ecs.pc = "adding"
    /\ AllAdded
    /\ Len(ecs.calls) < MaxCalls
    /\ \E d \in ecs.deps :
          /\ \/ ~SeqContains(ecs.calls, d)
             \/ ecs.calls # << >> /\ ecs.calls[Len(ecs.calls)] = d
          /\ world' = set_dependency(world, entity_of(d.child), entity_of(d.head), d.role)
          /\ ecs' = [ecs EXCEPT !.calls = Append(@, d)]
    /\ UNCHANGED << parsevars, lexvars, morphvars, graphvars, analyses >>

\* world.validate() once every edge has been set.
Validate ==
    /\ ecs.pc = "adding"
    /\ AllAdded
    /\ \A d \in ecs.deps : SeqContains(ecs.calls, d)
    /\ ecs' = [ecs EXCEPT !.pc = "validated", !.errors = validate(world)]
    /\ UNCHANGED << world, parsevars, lexvars, morphvars, graphvars, analyses >>

NextWorld ==
    \/ AddToken
    \/ SetDependency
    \/ Validate

\* The sentence of test_agreement_check, and sentences of three tokens: a
\* subject that differs from the verb in number and person with a modifier
\* that differs in number; differences of gender and case only next to an
\* empty number mask; two tokens with the same text.
Sentences ==
    { << TokenSpec("plays", << >>, { "SINGULAR", "THIRD_PERSON" }),
         TokenSpec("kids", << >>, { "PLURAL", "THIRD_PERSON" }) >>,
      << TokenSpec("verb", << >>, { "SINGULAR", "THIRD_PERSON" }),
         TokenSpec("noun", << >>, { "PLURAL", "FIRST_PERSON" }),
         TokenSpec("adj", << >>, { "SINGULAR", "FEMININE", "GENITIVE" }) >>,
      << TokenSpec("verb", << >>, { "THIRD_PERSON" }),
         TokenSpec("noun", << >>, { "SINGULAR", "MASCULINE", "NOMINATIVE" }),
         TokenSpec("adj", << >>, { "SINGULAR", "FEMININE", "GENITIVE" }) >>,
      << TokenSpec("noun", << >>, { "PLURAL", "THIRD_PERSON" }),
         TokenSpec("noun", << >>, { "PLURAL", "THIRD_PERSON" }),
         TokenSpec("verb", << >>, { "SINGULAR", "THIRD_PERSON" }) >> }

\* The roles the validators tell apart: Subject, Modifier, and one other.
StoreRoles == { "Subject", "Modifier", "Object" }

\* The edges between different tokens of a sentence.
EdgesOver(sentence) ==
    { Edge(c, h, r) : c \in 0..(Len(sentence) - 1), h \in 0..(Len(sentence) - 1),
                      r \in StoreRoles } \ { Edge(c, c, r) : c \in 0..(Len(sentence) - 1),
                                                               r \in StoreRoles }

\* The subsets of S of at most n elements.
RECURSIVE SubsetsUpTo(_, _)
SubsetsUpTo(S, n) ==
    IF n = 0 THEN { {} }
    ELSE SubsetsUpTo(S, n - 1) \cup { T \cup { x } : T \in SubsetsUpTo(S, n - 1), x \in S }

\* A new store and a caller with a sentence and edges to set.
InitWorld ==
    /\ world = world_new
    /\ \E sentence \in Sentences : \E ds \in SubsetsUpTo(EdgesOver(sentence), MaxDeps) :
          ecs = [pc |-> "adding", sentence |-> sentence, deps |-> ds,
                 entities |-> [k \in 1..Len(sentence) |-> << >>],
                 calls |-> << >>, errors |-> << >>]
    /\ GraphIdle
    /\ EngineIdle
    /\ LexIdle
    /\ MorphIdle
    /\ ParseIdle

SpecWorld == InitWorld /\ [][NextWorld]_vars

-----------------------------------------------------------------------------
(* The semantic graph (logos-solver, graph.rs).  A node carries a lemma id *)
(* and index_map holds one node per lemma id, so a NodeIndex is written as *)
(* the lemma id of its node; nodes and edges are kept in order of          *)
(* addition.                                                               *)

Relations == { "IsA", "RequiresAttribute", "HasAttribute" }

SemanticEdge(from, to, relation) == [from |-> from, to |-> to, relation |-> relation]

graph_new == [nodes |-> << >>, edges |-> << >>]

contains_key(g, lemma) == \E n \in 1..Len(g.nodes) : g.nodes[n] = lemma

add_concept(g, lemma) ==
    IF contains_key(g, lemma) THEN g ELSE [g EXCEPT !.nodes = Append(@, lemma)]

add_relation(g, from, to, rel) ==
    [add_concept(add_concept(g, from), to) EXCEPT
        !.edges = Append(@, SemanticEdge(from, to, rel))]

\* The graph of an archived network: its edges added in order.
RECURSIVE from_archived_from(_, _, _)
from_archived_from(g, net, n) ==
    IF n > Len(net) THEN g
    ELSE from_archived_from(add_relation(g, net[n].from, net[n].to, net[n].relation),
                            net, n + 1)

from_archived(net) == from_archived_from(graph_new, net, 1)

\* graph.edges(a): the outgoing edges of a, the one added last first.
RECURSIVE edges_from(_, _, _)
edges_from(g, a, n) ==
    IF n = 0 THEN << >>
    ELSE IF g.edges[n].from = a THEN << g.edges[n] >> \o edges_from(g, a, n - 1)
    ELSE edges_from(g, a, n - 1)

edges(g, a) == edges_from(g, a, Len(g.edges))

\* Variants used to test the claims below.
follows_AnyRelation(relation) == TRUE

is_visited_Never(visited, idx) == FALSE

\* The relation whose targets are pushed on the stack.
follows(relation) == relation = "IsA"

is_visited(visited, idx) == \E n \in 1..Len(visited) : visited[n] = idx

\* The locals of satisfies_constraint.
Search(at, subject, attribute, stack, visited, found) ==
    [pc |-> at, subject |-> subject, attribute |-> attribute, stack |-> stack,
     visited |-> visited, result |-> found]

\* The loop over the edges of one node, from edge n of es: the result when
\* the attribute is found, else the stack with the IsA targets pushed.
RECURSIVE scan_edges(_, _, _, _)
scan_edges(es, n, attribute, stack) ==
    IF n > Len(es) THEN [found |-> FALSE, stack |-> stack]
    ELSE IF es[n].relation = "HasAttribute" /\ es[n].to = attribute
         THEN [found |-> TRUE, stack |-> stack]
    ELSE scan_edges(es, n + 1, attribute,
                    IF follows(es[n].relation) THEN Append(stack, es[n].to) ELSE stack)

\* The entry of satisfies_constraint.
start_search(g, subject, attribute) ==
    IF contains_key(g, subject)
    THEN Search("loop", subject, attribute, << subject >>, << >>, FALSE)
    ELSE Search("returned", subject, attribute, << >>, << >>, FALSE)

\* One pass of the while loop, or the return after it.
iterate(g, s) ==
    IF s.stack = << >> THEN [s EXCEPT !.pc = "returned", !.result = FALSE]
    ELSE LET current_idx == s.stack[Len(s.stack)]
             popped == SubSeq(s.stack, 1, Len(s.stack) - 1)
         IN  IF is_visited(s.visited, current_idx) THEN [s EXCEPT !.stack = popped]
             ELSE LET r == scan_edges(edges(g, current_idx), 1, s.attribute, popped)
                  IN  IF r.found
                      THEN [s EXCEPT !.pc = "returned", !.result = TRUE,
                                     !.stack = r.stack,
                                     !.visited = Append(@, current_idx)]
                      ELSE [s EXCEPT !.stack = r.stack,
                                     !.visited = Append(@, current_idx)]

RECURSIVE search_loop(_, _)
search_loop(g, s) == IF s.pc = "returned" THEN s.result ELSE search_loop(g, iterate(g, s))

satisfies_constraint(g, subject, attribute) ==
    search_loop(g, start_search(g, subject, attribute))

\* Variant used to test a claim below: the targets of all edges.
get_required_attributes_AnyRelation(g, subject) ==
    IF contains_key(g, subject)
    THEN [n \in 1..Len(edges(g, subject)) |-> edges(g, subject)[n].to]
    ELSE << >>

\* The targets of the RequiresAttribute edges of the subject, the edge added
\* last first.
get_required_attributes(g, subject) ==
    IF contains_key(g, subject)
    THEN LET es == SelectSeq(edges(g, subject),
                             LAMBDA e : e.relation = "RequiresAttribute")
         IN  [n \in 1..Len(es) |-> es[n].to]
    ELSE << >>

\* The graph is built, then searched.
MaxEdges == 2

GraphLemmas == 1..3

\* The lemmas of test_semantic_validation: eat 1, food 3 and
Stone == 2

Apple == 4

Edible == 99

\* The network of the test; the test adds Stone by add_concept.
TestNetwork ==
    << SemanticEdge(1, Edible, "RequiresAttribute"),
       SemanticEdge(3, Edible, "HasAttribute"), SemanticEdge(Apple, 3, "IsA") >>

\* Archived networks: the test's, two with IsA cycles and a self-loop, and
\* one where every relation leaves the subject.
Networks ==
    { TestNetwork,
      << SemanticEdge(1, 2, "IsA"), SemanticEdge(2, 1, "IsA"), SemanticEdge(2, 2, "IsA"),
         SemanticEdge(2, Edible, "HasAttribute") >>,
      << SemanticEdge(1, 2, "IsA"), SemanticEdge(1, 3, "IsA"), SemanticEdge(2, 4, "IsA"),
         SemanticEdge(3, 4, "IsA"), SemanticEdge(4, 1, "IsA"),
         SemanticEdge(4, Edible, "HasAttribute") >>,
      << SemanticEdge(1, 2, "RequiresAttribute"), SemanticEdge(2, 3, "HasAttribute"),
         SemanticEdge(1, 3, "IsA"), SemanticEdge(3, Edible, "HasAttribute"),
         SemanticEdge(1, 4, "HasAttribute"), SemanticEdge(4, 3, "HasAttribute") >> }

LoadNetwork(net) ==
    /\ search.pc = "idle"
    /\ graph = graph_new
    /\ graph' = from_archived(net)
    /\ UNCHANGED << search, storevars, analyses, parsevars, lexvars, morphvars >>

AddConcept(lemma) ==
    /\ search.pc = "idle"
    /\ graph' = add_concept(graph, lemma)
    /\ UNCHANGED << search, storevars, analyses, parsevars, lexvars, morphvars >>

AddRelation(from, to, rel) ==
    /\ search.pc = "idle"
    /\ Len(graph.edges) < MaxEdges
    /\ graph' = add_relation(graph, from, to, rel)
    /\ UNCHANGED << search, storevars, analyses, parsevars, lexvars, morphvars >>

Call(subject, attribute) ==
    /\ search.pc = "idle"
    /\ search' = start_search(graph, subject, attribute)
    /\ UNCHANGED << graph, storevars, analyses, parsevars, lexvars, morphvars >>

Iterate ==
    /\ search.pc = "loop"
    /\ search' = iterate(graph, search)
    /\ UNCHANGED << graph, storevars, analyses, parsevars, lexvars, morphvars >>

\* The arguments of satisfies_constraint: Apple is no node unless the
\* test's network is loaded.
SearchSubjects == GraphLemmas \cup { Apple }

\* The attributes asked for: lemma 3, node or not, and Edible where it is
\* a node, as the attributes validate_semantics asks for are.
SearchAttributes == { 3 } \cup ( IF contains_key(graph, Edible) THEN { Edible } ELSE {} )

NextGraph ==
    \/ \E net \in Networks : LoadNetwork(net)
    \/ AddConcept(Stone)
    \/ \E from \in GraphLemmas, to \in GraphLemmas, rel \in Relations :
          AddRelation(from, to, rel)
    \/ \E subject \in SearchSubjects, attribute \in SearchAttributes : Call(subject, attribute)
    \/ Iterate

InitGraph ==
    /\ graph = graph_new
    /\ search = [pc |-> "idle"]
    /\ StoreIdle
    /\ EngineIdle
    /\ LexIdle
    /\ MorphIdle
    /\ ParseIdle

SpecGraph == InitGraph /\ [][NextGraph]_vars

\* The loop of satisfies_constraint runs on once entered.
SpecGraphFair == SpecGraph /\ WF_vars(Iterate)

-----------------------------------------------------------------------------
(* Semantic validation (logos-solver, solver.rs) and the engine            *)
(* (logos-wasm, lib.rs).  The archive of the engine is dict, its semantic  *)
(* graph is graph: a graph that was never loaded reads as the empty graph  *)
(* analyze_core puts in its place.  A text is given as the raw tokens      *)
(* parse_with_spans cuts it into, and with it the edges parse_greedy       *)
(* returns for its tokens.                                                 *)

SemanticError(verb_text, object_text, message) ==
    [verb_text |-> verb_text, object_text |-> object_text, message |-> message]

\* The errors of one requirement list for one verb and object.
RECURSIVE requirement_errors(_, _, _, _, _)
requirement_errors(g, requirements, n, verb_token, object_token) ==
    IF n > Len(requirements) THEN << >>
    ELSE ( IF ~satisfies_constraint(g, object_token.lemma_id[1], requirements[n])
           THEN << SemanticError(verb_token.text, object_token.text,
                                 << "Constraint Violation", object_token.text,
                                    verb_token.text >>) >>
           ELSE << >> )
         \o requirement_errors(g, requirements, n + 1, verb_token, object_token)

\* validate_semantics: the body of the loop for the entity e.
semantic_errors_of(w, g, e) ==
    LET object_token == w.components[e + 1]
        syntax == object_token.syntax[1]
    IN  IF syntax.role = "Object" /\ contains(w, syntax.head)
        THEN LET verb_token == w.components[syntax.head + 1]
             IN  IF verb_token.lemma_id # << >> /\ object_token.lemma_id # << >>
                 THEN requirement_errors(g, get_required_attributes(g, verb_token.lemma_id[1]),
                                         1, verb_token, object_token)
                 ELSE << >>
        ELSE << >>

RECURSIVE validate_semantics_from(_, _, _)
validate_semantics_from(w, g, k) ==
    IF k > Len(w.archetype) THEN << >>
    ELSE semantic_errors_of(w, g, w.archetype[k]) \o validate_semantics_from(w, g, k + 1)

validate_semantics(w, g) == validate_semantics_from(w, g, 1)

\* The text and the kind tokenize gives a raw token.
lexed(raw) ==
    [text |-> IF raw.kind = "Punct" THEN << raw.c >> ELSE raw.s, kind |-> token_kind(raw)]

\* An AnalyzedToken: punctuation is not looked up.
AnalyzedToken(text, a) == [text |-> text, analysis |-> a]

\* Variant used to test a claim below: punctuation is looked up like a word.
analyze_token_LookupPunctuation(d, t) ==
    AnalyzedToken(t.text,
                  resolve_morphology(d, t.text,
                                     IF t.kind.kind = "Word" THEN << t.kind.id >>
                                     ELSE << >>))

analyze_token(d, t) ==
    IF t.kind.kind = "Punctuation"
    THEN AnalyzedToken(t.text, MorphAnalysis({}, << >>, << >>, "Punctuation"))
    ELSE AnalyzedToken(t.text,
                       resolve_morphology(d, t.text,
                                          IF t.kind.kind = "Word" THEN << t.kind.id >>
                                          ELSE << >>))

TokenDebug(at) ==
    [text |-> at.text, lemma_id |-> at.analysis.lemma_id, kind |-> at.analysis.kind,
     morphology |-> IF at.analysis.flags = {} THEN { "None" } ELSE at.analysis.flags]

AnalysisReport(toks, syntax_errors, semantic_errors, d) ==
    [tokens |-> toks, syntax_errors |-> syntax_errors,
     semantic_errors |-> semantic_errors,
     debug_info |-> << Len(d.lemmas), Len(d.paradigms) >>]

\* The locals on entry: the text is lexed, no token is analyzed yet.
Entered(raws, dependencies) ==
    [pc |-> "resolve", tokens |-> [k \in 1..Len(raws) |-> lexed(raws[k])],
     dependencies |-> dependencies, analyzed_tokens |-> << >>, world |-> world_new,
     entities |-> << >>, n |-> 1, syntax_errors |-> << >>, report |-> << >>]

\* The locals of a call of analyze_core that has not begun.
NotCalled == [Entered(<< >>, << >>) EXCEPT !.pc = "idle"]

\* The map of the tokens to AnalyzedTokens, from token k; a panic of
\* resolve_morphology ends it.
RECURSIVE analyze_tokens(_, _, _)
analyze_tokens(d, toks, k) ==
    IF k > Len(toks) THEN [panic |-> FALSE, ats |-> << >>]
    ELSE LET at == analyze_token(d, toks[k])
             rest == analyze_tokens(d, toks, k + 1)
         IN  IF at.analysis = Panicked THEN [panic |-> TRUE, ats |-> << >>]
             ELSE [rest EXCEPT !.ats = << at >> \o @]

\* One step of analyze_core over its locals a: the tokens analyzed, a token
\* added to the store, an edge set, the store validated, or the semantic
\* validation and the report.
analyze_step(d, g, a) ==
    IF a.pc = "resolve" THEN
        LET r == analyze_tokens(d, a.tokens, 1)
        IN  IF r.panic THEN [a EXCEPT !.pc = "panic"]
            ELSE [a EXCEPT !.analyzed_tokens = r.ats,
                           !.pc = IF r.ats = << >> THEN "link" ELSE "add"]
    ELSE IF a.pc = "add" THEN
        LET at == a.analyzed_tokens[Len(a.entities) + 1]
        IN  [a EXCEPT !.entities = Append(@, next_entity(a.world)),
                      !.world = add_token(@, at.text, at.analysis.lemma_id,
                                          at.analysis.flags),
                      !.pc = IF Len(a.entities) + 1 = Len(a.analyzed_tokens)
                             THEN ( IF a.dependencies = << >> THEN "validate" ELSE "link" )
                             ELSE "add"]
    ELSE IF a.pc = "link" THEN
        IF a.n > Len(a.dependencies) THEN [a EXCEPT !.pc = "validate"]
        ELSE LET dep == a.dependencies[a.n]
                 next_pc == IF a.n = Len(a.dependencies) THEN "validate" ELSE "link"
             IN  IF /\ dep.dependent_index < Len(a.entities)
                    /\ dep.head_index < Len(a.entities)
                    /\ dep.role # "None"
                 THEN [a EXCEPT !.n = @ + 1, !.pc = next_pc,
                                !.world = set_dependency(@, a.entities[dep.dependent_index + 1],
                                                         a.entities[dep.head_index + 1],
                                                         dep.role)]
                 ELSE [a EXCEPT !.n = @ + 1, !.pc = next_pc]
    ELSE IF a.pc = "validate" THEN
        [a EXCEPT !.pc = "semantics", !.syntax_errors = validate(a.world)]
    ELSE
        [a EXCEPT !.pc = "done",
                  !.report = << AnalysisReport(
                                   [k \in 1..Len(a.analyzed_tokens) |->
                                       TokenDebug(a.analyzed_tokens[k])],
                                   a.syntax_errors,
                                   LET es == validate_semantics(a.world, g)
                                   IN  [k \in 1..Len(es) |-> es[k].message],
                                   d) >>]

Running(a) == a.pc \notin { "idle", "done", "panic" }

\* analyze_core run from the locals a to its end, with nothing else going on.
RECURSIVE analyze_from(_, _, _)
analyze_from(d, g, a) == IF Running(a) THEN analyze_from(d, g, analyze_step(d, g, a)) ELSE a

analyze_core(d, g, raws, dependencies) == analyze_from(d, g, Entered(raws, dependencies))

\* Variant used to test the claim below: one store for all the calls.
world_of_Shared(t) == 1

\* The call whose local `world` the call t works on: its own.
world_of(t) == t

\* The number of calls of analyze_core that overlap.
MaxThreads == 2

Threads == 1..MaxThreads

\* The archive of the engine: eat, stone and apple with the lemma ids of
\* test_semantic_validation, and endings for a singular and a plural form.
EngineDictionary ==
    Dictionary(<< Lemma(1, << 949 >>), Lemma(Stone, << 955 >>), Lemma(Apple, << 956 >>) >>,
               << Paradigm(1, << << { "SINGULAR", "THIRD_PERSON" }, << 953 >> >>,
                                 << { "PLURAL", "THIRD_PERSON" }, << 957 >> >> >>) >>)

\* Texts with their edges: a verb and its object; a verb, a full stop, a
\* subject that differs in number and a word no lemma matches, with an
\* edge with no role and an edge that names no token.
EngineTexts ==
    { << << RawWord(<< 949, 953 >>), RawWord(<< 955, 953 >>) >>,
         << Dependency(0, 1, "Object") >> >>,
      << << RawWord(<< 949, 953 >>), RawPunct(46), RawWord(<< 955, 957 >>),
            RawWord(<< 947 >>) >>,
         << Dependency(0, 2, "Subject"), Dependency(0, 1, "None"),
            Dependency(4, 3, "Modifier") >> >> }

\* Variant used to test a claim below: the relations of the blob are added
\* to the graph in use.
load_semantics_Merge(g, net) == from_archived_from(g, net, 1)

\* LogosEngine::load_semantics: the semantic_graph of the engine after the
\* call, whatever it was before (g).
load_semantics(g, net) == from_archived(net)

\* load_semantics, before any call of analyze_core: it needs the engine
\* for itself.
LoadSemantics(net) ==
    /\ \A t \in Threads : analyses[t] = NotCalled
    /\ graph = graph_new
    /\ graph' = load_semantics(graph, net)
    /\ UNCHANGED << analyses, search, storevars, parsevars, lexvars, morphvars >>

\* A call of analyze_core begins.
Analyze(t, text) ==
    /\ analyses[t] = NotCalled
    /\ analyses' = [analyses EXCEPT ![t] = Entered(text[1], text[2])]
    /\ UNCHANGED << graphvars, storevars, parsevars, lexvars, morphvars >>

\* The call t takes one step.
AnalyzeStep(t) ==
    /\ Running(analyses[t])
    /\ LET a == [analyses[t] EXCEPT !.world = analyses[world_of(t)].world]
           b == analyze_step(dict, graph, a)
       IN  analyses' = [analyses EXCEPT ![world_of(t)].world = b.world, ![t] = b]
    /\ UNCHANGED << graphvars, storevars, parsevars, lexvars, morphvars >>

NextEngine ==
    \/ LoadSemantics(TestNetwork)
    \/ \E t \in Threads : \E text \in EngineTexts : Analyze(t, text)
    \/ \E t \in Threads : AnalyzeStep(t)

InitEngine ==
    /\ dict = EngineDictionary
    /\ graph = graph_new
    /\ analyses = [t \in Threads |-> NotCalled]
    /\ search = [pc |-> "idle"]
    /\ StoreIdle
    /\ ResolverIdle
    /\ LexIdle
    /\ ParseIdle

SpecEngine == InitEngine /\ [][NextEngine]_vars

-----------------------------------------------------------------------------
(* validate_semantics on a store filled by a caller, with a graph built    *)
(* from an archived network (solver.rs, graph.rs).                         *)

\* Most edges of an enumerated network.
MaxNet == 2

\* The edges of the enumerated networks: what lemma 1 requires and what
\* Stone has.
NetEdges ==
    { SemanticEdge(1, Edible, "RequiresAttribute"), SemanticEdge(1, 3, "RequiresAttribute"),
      SemanticEdge(Stone, Edible, "HasAttribute") }

\* The networks of up to MaxNet edges, an edge more than once too, the
\* test's, and one with two requirements of which Stone meets one.
SemNetworks ==
    UNION { [1..k -> NetEdges] : k \in 0..MaxNet }
    \cup { TestNetwork,
           << SemanticEdge(1, Edible, "RequiresAttribute"),
              SemanticEdge(1, 3, "RequiresAttribute"),
              SemanticEdge(Stone, Edible, "HasAttribute") >> }

\* Sentences of a head and a dependent: a verb and a noun with lemmas, a
\* noun with no lemma, a verb with no lemma, a head that is no verb, and
\* the verb and Apple of the test.
SemSentences ==
    { << TokenSpec("eats", << 1 >>, { "ACTIVE", "PRESENT", "THIRD_PERSON" }),
         TokenSpec("stone", << Stone >>, { "NOUN", "ACCUSATIVE" }) >>,
      << TokenSpec("eats", << 1 >>, { "ACTIVE", "PRESENT", "THIRD_PERSON" }),
         TokenSpec("thing", << >>, { "NOUN", "ACCUSATIVE" }) >>,
      << TokenSpec("does", << >>, { "ACTIVE", "PRESENT", "THIRD_PERSON" }),
         TokenSpec("stone", << Stone >>, { "NOUN", "ACCUSATIVE" }) >>,
      << TokenSpec("eater", << 1 >>, { "NOUN", "NOMINATIVE" }),
         TokenSpec("stone", << Stone >>, { "NOUN", "ACCUSATIVE" }) >>,
      << TokenSpec("eats", << 1 >>, { "ACTIVE", "PRESENT", "THIRD_PERSON" }),
         TokenSpec("apple", << Apple >>, { "NOUN", "ACCUSATIVE" }) >> }

\* validate_semantics(&world, &graph) after world.validate().
ValidateSemantics ==
    /\ ecs.pc = "validated"
    /\ ecs' = [pc |-> "checked", sentence |-> ecs.sentence, deps |-> ecs.deps,
               entities |-> ecs.entities, calls |-> ecs.calls, errors |-> ecs.errors,
               semantic_errors |-> validate_semantics(world, graph)]
    /\ UNCHANGED << world, parsevars, lexvars, morphvars, graphvars, analyses >>

NextSemantics ==
    \/ AddToken
    \/ SetDependency
    \/ Validate
    \/ ValidateSemantics

InitSemantics ==
    /\ world = world_new
    /\ \E sentence \in SemSentences : \E ds \in SubsetsUpTo(EdgesOver(sentence), MaxDeps) :
          ecs = [pc |-> "adding", sentence |-> sentence, deps |-> ds,
                 entities |-> [k \in 1..Len(sentence) |-> << >>],
                 calls |-> << >>, errors |-> << >>]
    /\ \E net \in SemNetworks : graph = from_archived(net)
    /\ search = [pc |-> "idle"]
    /\ EngineIdle
    /\ LexIdle
    /\ MorphIdle
    /\ ParseIdle

SpecSemantics == InitSemantics /\ [][NextSemantics]_vars

\* --- One engine called again and again ---
\* load_semantics takes &mut self and analyze_core &self, so the calls on one
\* engine come one after the other; `graph` is the semantic_graph of the
\* engine (the empty graph standing for None, which analyze_core replaces
\* by SemanticGraph::new()) and `analyses` the calls made so far.

\* Most calls made on the engine.
MaxEngineCalls == 4

\* Blobs: the network of the test, one that gives stone the attribute and
\* one with another requirement of the verb.
LoadNetworks ==
    { TestNetwork,
      << SemanticEdge(Stone, Edible, "HasAttribute") >>,
      << SemanticEdge(1, 3, "RequiresAttribute") >> }

EngineCall(op, net, text, out) == [op |-> op, net |-> net, text |-> text, out |-> out]

\* engine.load_semantics(blob)
LoadCall(net) ==
    /\ Len(analyses) < MaxEngineCalls
    /\ graph' = load_semantics(graph, net)
    /\ analyses' = Append(analyses, EngineCall("load_semantics", net, << >>, NotCalled))
    /\ UNCHANGED << search, storevars, parsevars, lexvars, morphvars >>

\* engine.analyze(text), from its entry to its return.
AnalyzeCall(text) ==
    /\ Len(analyses) < MaxEngineCalls
    /\ analyses' = Append(analyses, EngineCall("analyze", << >>, text,
                                               analyze_core(dict, graph, text[1], text[2])))
    /\ UNCHANGED << graphvars, storevars, parsevars, lexvars, morphvars >>

NextLoads ==
    \/ \E net \in LoadNetworks : LoadCall(net)
    \/ \E text \in EngineTexts : AnalyzeCall(text)

InitLoads ==
    /\ dict = EngineDictionary
    /\ graph = graph_new
    /\ analyses = << >>
    /\ search = [pc |-> "idle"]
    /\ StoreIdle
    /\ ResolverIdle
    /\ LexIdle
    /\ ParseIdle

SpecLoads == InitLoads /\ [][NextLoads]_vars

\* --- From the text to the report ---
\* tokenize runs on a text, then analyze_core goes on from its tokens.  The
\* list parse_greedy returns is taken from ParserOutputs, which has lists of
\* every shape the loop over the dependencies tells apart.

\* An archive with a lemma of a three-byte letter, a lemma with no text and
\* endings of one and two letters.
ReportDictionary ==
    Dictionary(<< Lemma(5, << 7936, 949 >>), Lemma(6, << >>) >>,
               << Paradigm(5, << << { "NOUN", "NOMINATIVE", "SINGULAR" }, << 953 >> >>,
                                 << { "NOUN", "ACCUSATIVE" }, << 7936, 953 >> >> >>) >>)

ReportDictionaries == { EngineDictionary, ReportDictionary }

\* Scalars of the texts: three Greek letters, one of three bytes, a full
\* stop, a space and the euro sign.
ReportAlphabet == { 949, 953, 7936, 46, 32, 8364 }

\* Dependency lists over n tokens: none, an Object edge, and an edge that
\* names no token with an edge of role None.
ParserOutputs(n) ==
    { << >> } \cup
    ( IF n >= 2
      THEN { << Dependency(0, 1, "Object") >>,
             << Dependency(0, n, "Subject"), Dependency(1, 0, "None") >> }
      ELSE {} )

\* analyze_core after tokenize, to its return.
Report ==
    /\ lex_pc = "done"
    /\ analyses = << >>
    /\ \E ds \in ParserOutputs(Len(lex_tokens)) :
          analyses' =
              << analyze_from(dict, graph,
                              [Entered(<< >>, ds) EXCEPT
                                  !.tokens = [k \in 1..Len(lex_tokens) |->
                                                 [text |-> lex_tokens[k].text,
                                                  kind |-> lex_tokens[k].kind]]]) >>
    /\ UNCHANGED << graphvars, storevars, parsevars, lexvars, morphvars >>

NextReport ==
    \/ ScanBreak
    \/ ScanToken
    \/ ScanRecover
    \/ Tokenize
    \/ Report

InitReport == InitLexFrom(Texts(ReportAlphabet, MaxChars), ReportDictionaries)

SpecReport == InitReport /\ [][NextReport]_vars

\* --- From the parser to the store ---
\* parse_greedy runs on the tokens; analyze_core then goes on from the
\* store population with the list it returned.  The tokens of the parser are
\* the text and flags of the analyzed tokens, so each becomes an entity with
\* that text and those flags; the lemma ids play no part here.

\* analyze_core from step 5 to its return, over the output of the parser.
Populate ==
    /\ pc = "done"
    /\ analyses = << >>
    /\ analyses' =
          << analyze_from(dict, graph,
                          [Entered(<< >>, deps) EXCEPT
                              !.analyzed_tokens =
                                  [k \in 1..Len(tokens) |->
                                      AnalyzedToken(tokens[k].text,
                                                    MorphAnalysis(tokens[k].flags, << >>,
                                                                  << >>, "Word"))],
                              !.pc = IF tokens = << >> THEN "link" ELSE "add"]) >>
    /\ UNCHANGED << graphvars, storevars, parsevars, lexvars, morphvars >>

NextPopulate ==
    \/ FindRoot
    \/ SkipRoot
    \/ Preposition
    \/ Conjunction
    \/ RelativePronoun
    \/ SecondaryVerb
    \/ HeadNoun
    \/ PendingModifier
    \/ Unattached
    \/ Return
    \/ Populate

SpecPopulate == InitRelink /\ [][NextPopulate]_vars

-----------------------------------------------------------------------------
(* Reading the edge list.                                                  *)

TokenIndices == 0..(Len(tokens) - 1)

\* The heads of token d: the head of every edge whose dependent is d.
HeadsOf(ds, d) ==
    { ds[j].head_index : j \in { n \in 1..Len(ds) : ds[n].dependent_index = d } }

\* The tokens reached from S by following at most n head links.
RECURSIVE UpFrom(_, _, _)
UpFrom(ds, S, n) ==
    IF n = 0 THEN S
    ELSE UpFrom(ds, S \cup UNION { HeadsOf(ds, d) : d \in S }, n - 1)

\* The tokens reached from d by one or more head links.
AncestorsOf(ds, d) == UpFrom(ds, HeadsOf(ds, d), Len(tokens))

EdgesOfDependent(ds, d) == { j \in 1..Len(ds) : ds[j].dependent_index = d }

Returned == pc = "done"

-----------------------------------------------------------------------------
(* C1.  The returned edge list is a forest: following head links from any  *)
(* token never comes back to that token.                                   *)
C1_HeadLinksAcyclic ==
    Returned => \A d \in TokenIndices : d \notin AncestorsOf(deps, d)


-----------------------------------------------------------------------------
(* C2.  Every edge has its head and its dependent among the token indices  *)
(* and they differ.                                                        *)
C2_EdgesInRange ==
    \A j \in 1..Len(deps) :
        /\ deps[j].head_index \in TokenIndices
        /\ deps[j].dependent_index \in TokenIndices
        /\ deps[j].head_index # deps[j].dependent_index

\* A returned list in which a genitive absolute has relinked a noun under
\* its participle and a relative clause was attached.
C2_Witness ==
    /\ Returned
    /\ \E j \in 1..Len(deps) :
          /\ deps[j].role = "Subject"
          /\ "PARTICIPLE" \in Tok(deps[j].head_index).flags
          /\ "NOUN" \in Tok(deps[j].dependent_index).flags
    /\ \E j \in 1..Len(deps) : deps[j].role = "RelativeClause"

-----------------------------------------------------------------------------
(* C3.  Each token is the dependent of at most one edge, at every point of *)
(* the pass and in the returned list: a RELINK rewrites the edge of its    *)
(* dependent, it adds none.                                                *)
C3_AtMostOneEdgePerDependent ==
    \A d \in TokenIndices : Cardinality(EdgesOfDependent(deps, d)) <= 1

\* A returned list with a relinked edge: a noun that is the Subject of a
\* participle or of an infinitive.
C3_Witness ==
    /\ Returned
    /\ \E j \in 1..Len(deps) :
          /\ deps[j].role = "Subject"
          /\ "PARTICIPLE" \in Tok(deps[j].head_index).flags
    /\ \E j \in 1..Len(deps) :
          /\ deps[j].role = "Subject"
          /\ "INFINITIVE" \in Tok(deps[j].head_index).flags

-----------------------------------------------------------------------------
(* C4.  No edge has the root as its dependent, the root being the first    *)
(* is_verb token, or token 0 when there is no verb.                        *)

FirstVerbOrZero ==
    IF \E k \in TokenIndices : is_verb(Tok(k))
    THEN CHOOSE k \in TokenIndices :
            /\ is_verb(Tok(k))
            /\ \A m \in 0..(k - 1) : ~is_verb(Tok(m))
    ELSE 0

C4_RootIsNoDependent ==
    \A j \in 1..Len(deps) : deps[j].dependent_index # FirstVerbOrZero

\* A returned list for a sentence with two verbs whose first verb is not
\* the first token, with an edge before and an edge after the root.
C4_Witness ==
    /\ Returned
    /\ FirstVerbOrZero > 0
    /\ \E k \in TokenIndices : k > FirstVerbOrZero /\ is_verb(Tok(k))
    /\ \E j \in 1..Len(deps) : deps[j].dependent_index < FirstVerbOrZero
    /\ \E j \in 1..Len(deps) : deps[j].dependent_index > FirstVerbOrZero

-----------------------------------------------------------------------------
(* C5.  parse_greedy is total: no slice access is out of range, every      *)
(* state before the return has a next step, and the pass only moves        *)
(* forward, one token per step, until the list is returned.                *)

StateIndices ==
    { open_preposition_idx[n] : n \in 1..Len(open_preposition_idx) }
    \cup { pending_modifiers[n] : n \in 1..Len(pending_modifiers) }
    \cup { last_noun_idx[n] : n \in 1..Len(last_noun_idx) }
    \cup { active_coordination_head[n] : n \in 1..Len(active_coordination_head) }
    \cup { pending_relative_clause[n][1] : n \in 1..Len(pending_relative_clause) }
    \cup { pending_relative_clause[n][2] : n \in 1..Len(pending_relative_clause) }

C5_Total ==
    /\ [](/\ ~oob
          /\ i <= Len(tokens)
          /\ StateIndices \subseteq TokenIndices
          /\ (tokens # << >> /\ pc # "start" => current_clause_head \in TokenIndices)
          /\ (~Returned => ENABLED Next))
    /\ [][ /\ pc = "loop" /\ pc' = "loop" => i' = i + 1
           /\ pc' = "done" => i = Len(tokens) /\ i' = i /\ deps' = deps ]_vars

\* A returned list for a sentence without a verb that ends with dangling
\* modifiers, an open preposition and a pending relative pronoun.
C5_Witness ==
    /\ Returned
    /\ root_idx(tokens) = << >>
    /\ pending_modifiers # << >>
    /\ open_preposition_idx # << >>
    /\ pending_relative_clause # << >>

\* A returned list for a sentence without a verb that ends with a pending
\* conjunction, dangling modifiers and an open preposition.
C5_WitnessConjunction ==
    /\ Returned
    /\ root_idx(tokens) = << >>
    /\ active_coordination_head # << >>
    /\ pending_modifiers # << >>
    /\ open_preposition_idx # << >>

\* The empty slice is returned an empty list.
C5_WitnessEmpty == Returned /\ tokens = << >> /\ deps = << >>


-----------------------------------------------------------------------------
(* Reading one step of the pass.                                           *)

\* The step about to run processes the head noun i.
HeadNounStep ==
    /\ ReachesNominal
    /\ is_nominal(Tok(i))
    /\ is_head_noun(Tok(i))

\* Token k is taken by none of the branches before the nominal rule.
ReachesNominalToken(k) ==
    /\ NotFunctionWord(Tok(k))
    /\ ~("RELATIVE" \in Tok(k).flags)
    /\ ~is_verb(Tok(k))

\* No coordination head is active and no preposition is open.
NoOpenSlot == active_coordination_head = << >> /\ open_preposition_idx = << >>

\* The step appends at least one edge and the last one is e.
LastEdgeIs(e) == Len(deps') > Len(deps) /\ deps'[Len(deps')] = e

\* Tokens a and b have the same bits of the group, or one has none.
Compatible(mask, a, b) ==
    \/ a.flags \cap mask = {}
    \/ b.flags \cap mask = {}
    \/ a.flags \cap mask = b.flags \cap mask

\* Agreement in gender and number, the case left aside.
GenderNumberAgree(a, b) ==
    Compatible(gender_mask, a, b) /\ Compatible(number_mask, a, b)

\* The pending modifiers that agree with token k in gender and number.
AgreeingPending(k) ==
    { m \in { pending_modifiers[n] : n \in 1..Len(pending_modifiers) } :
        GenderNumberAgree(Tok(m), Tok(k)) }

-----------------------------------------------------------------------------
(* C7.  Genitive absolute.  A head noun i with Participle and Genitive,    *)
(* processed with no active coordination head and no open preposition      *)
(* after a Genitive last noun that agrees with it: the one edge of the     *)
(* last noun becomes (i -> last noun, Subject), every other edge stays,    *)
(* and (current_clause_head -> i, AbsoluteClause) is emitted.              *)
C7_Pre ==
    /\ HeadNounStep
    /\ NoOpenSlot
    /\ { "PARTICIPLE", "GENITIVE" } \subseteq Tok(i).flags
    /\ last_noun_idx # << >>
    /\ "GENITIVE" \in Tok(last_noun_idx[1]).flags
    /\ Tok(last_noun_idx[1]).flags \cap case_mask = Tok(i).flags \cap case_mask
    /\ GenderNumberAgree(Tok(last_noun_idx[1]), Tok(i))

C7_GenitiveAbsolute ==
    [][ C7_Pre =>
          LET n == last_noun_idx[1]
              E == EdgesOfDependent(deps, n)
          IN  /\ Cardinality(E) = 1
              /\ \A j \in 1..Len(deps) :
                    deps'[j] = IF j \in E THEN Dependency(i, n, "Subject")
                               ELSE deps[j]
              /\ LastEdgeIs(Dependency(current_clause_head, i, "AbsoluteClause"))
      ]_vars

\* A genitive absolute inside a relative clause: the participle hangs from
\* the verb of the relative clause and the noun was relinked under it.
C7_Witness ==
    \E j \in 1..Len(deps) :
        /\ deps[j].role = "AbsoluteClause"
        /\ deps[j].head_index # root
        /\ \E n \in 1..Len(deps) :
              /\ deps[n].head_index = deps[j].dependent_index
              /\ deps[n].role = "Subject"
              /\ "NOUN" \in Tok(deps[n].dependent_index).flags

-----------------------------------------------------------------------------
(* C10.  A Preposition token i that is not the root is attached to         *)
(* current_clause_head, as PassiveAgent exactly when its text is "upo" or  *)
(* "hupo" and the token at current_clause_head is Passive, as Modifier     *)
(* otherwise; i becomes the open preposition.                              *)
C10_Pre == InLoop /\ i # root /\ "PREPOSITION" \in Tok(i).flags

C10_Preposition ==
    [][ C10_Pre =>
          LET passive == /\ Tok(i).text \in { "upo", "hupo" }
                         /\ "PASSIVE" \in Tok(current_clause_head).flags
          IN  /\ deps' = Append(deps,
                    Dependency(current_clause_head, i,
                               IF passive THEN "PassiveAgent" ELSE "Modifier"))
              /\ open_preposition_idx' = << i >>
      ]_vars

\* A passive agent inside a relative clause whose verb is Passive while the
\* root is not, the preposition being open.
C10_Witness ==
    \E j \in 1..Len(deps) :
        /\ deps[j].role = "PassiveAgent"
        /\ deps[j].head_index # root
        /\ ~("PASSIVE" \in Tok(root).flags)
        /\ open_preposition_idx = << deps[j].dependent_index >>


-----------------------------------------------------------------------------
(* C8.  Bare infinitive.                                                   *)

\* An Infinitive head noun i, no active coordination head, no open
\* preposition, and no pending Article that agrees with it.
C8_Pre ==
    /\ HeadNounStep
    /\ NoOpenSlot
    /\ "INFINITIVE" \in Tok(i).flags
    /\ ~("PARTICIPLE" \in Tok(i).flags)
    /\ \A m \in AgreeingPending(i) : ~("ARTICLE" \in Tok(m).flags)

\* The last noun exists and its token is Accusative.
C8_AccusativeLastNoun ==
    last_noun_idx # << >> /\ "ACCUSATIVE" \in Tok(last_noun_idx[1]).flags

\* The edges (current_clause_head -> last noun, Object).
C8_ObjectEdges ==
    { j \in EdgesOfDependent(deps, last_noun_idx[1]) :
        /\ deps[j].head_index = current_clause_head
        /\ deps[j].role = "Object" }

\* C8 as claimed: the edge of an Accusative last noun is rewritten to
\* (i -> last noun, Subject) whatever that edge is, and
\* (current_clause_head -> i, Complement) is emitted.
C8_RelinksAnyAccusative ==
    [][ C8_Pre =>
          /\ C8_AccusativeLastNoun =>
                \E j \in EdgesOfDependent(deps, last_noun_idx[1]) :
                    deps'[j] = Dependency(i, last_noun_idx[1], "Subject")
          /\ LastEdgeIs(Dependency(current_clause_head, i, "Complement"))
      ]_vars

\* C8 amended: the edge of an Accusative last noun is rewritten to
\* (i -> last noun, Subject) when it is (current_clause_head -> last noun,
\* Object), no edge is rewritten otherwise, and in every case
\* (current_clause_head -> i, Complement) is emitted.
C8_RelinksObjectOfClauseHead ==
    [][ C8_Pre =>
          /\ \A j \in 1..Len(deps) :
                deps'[j] = IF C8_AccusativeLastNoun /\ j \in C8_ObjectEdges
                           THEN Dependency(i, last_noun_idx[1], "Subject")
                           ELSE deps[j]
          /\ LastEdgeIs(Dependency(current_clause_head, i, "Complement"))
      ]_vars

\* An Accusative Object relinked as the Subject of an infinitive that is
\* the Complement of the clause head.
C8_Witness ==
    \E j \in 1..Len(deps) :
        /\ deps[j].role = "Complement"
        /\ "INFINITIVE" \in Tok(deps[j].dependent_index).flags
        /\ \E n \in 1..Len(deps) :
              /\ deps[n].head_index = deps[j].dependent_index
              /\ deps[n].role = "Subject"
              /\ "ACCUSATIVE" \in Tok(deps[n].dependent_index).flags

-----------------------------------------------------------------------------
(* C9.  Articular infinitive.  An Infinitive head noun i with a pending    *)
(* Article that agrees with it (no active coordination head, no open       *)
(* preposition): every pending modifier that agrees with i in gender and   *)
(* number, whatever its case, gets (i -> m, Modifier) and leaves the       *)
(* pending list; i is attached to current_clause_head, as Subject if one   *)
(* of them is Nominative and as Object otherwise.                          *)
C9_Pre ==
    /\ HeadNounStep
    /\ NoOpenSlot
    /\ "INFINITIVE" \in Tok(i).flags
    /\ ~("PARTICIPLE" \in Tok(i).flags)
    /\ \E m \in AgreeingPending(i) : "ARTICLE" \in Tok(m).flags

C9_ArticularInfinitive ==
    [][ C9_Pre =>
          LET M    == AgreeingPending(i)
              role == IF \E m \in M : "NOMINATIVE" \in Tok(m).flags
                      THEN "Subject" ELSE "Object"
          IN  /\ Len(deps') = Len(deps) + Cardinality(M) + 1
              /\ \A j \in 1..Len(deps) : deps'[j] = deps[j]
              /\ \A m \in M :
                    \E j \in (Len(deps) + 1)..(Len(deps') - 1) :
                        deps'[j] = Dependency(i, m, "Modifier")
              /\ deps'[Len(deps')] = Dependency(current_clause_head, i, role)
              /\ \A m \in M : ~SeqContains(pending_modifiers', m)
      ]_vars

\* An infinitive attached as Subject with an Accusative and a Nominative
\* article under it.
C9_Witness ==
    \E j \in 1..Len(deps) :
        /\ deps[j].role = "Subject"
        /\ "INFINITIVE" \in Tok(deps[j].dependent_index).flags
        /\ \E n \in 1..Len(deps) :
              /\ deps[n] = Dependency(deps[j].dependent_index,
                                      deps[n].dependent_index, "Modifier")
              /\ { "ARTICLE", "ACCUSATIVE" } \subseteq Tok(deps[n].dependent_index).flags
        /\ \E n \in 1..Len(deps) :
              /\ deps[n] = Dependency(deps[j].dependent_index,
                                      deps[n].dependent_index, "Modifier")
              /\ "NOMINATIVE" \in Tok(deps[n].dependent_index).flags


-----------------------------------------------------------------------------
(* C6.  Relative clause.                                                   *)

\* The step about to run processes a secondary verb while a relative
\* pronoun is pending.
C6_VerbPre ==
    /\ InLoop
    /\ i # root
    /\ NotFunctionWord(Tok(i))
    /\ ~("RELATIVE" \in Tok(i).flags)
    /\ is_verb(Tok(i))
    /\ pending_relative_clause # << >>

\* What that step does: (a -> i, RelativeClause), (i -> p, role of the case
\* of p), the slot cleared, the scope set to i.
C6_VerbPost ==
    LET p    == pending_relative_clause[1][1]
        a    == pending_relative_clause[1][2]
        role == IF "NOMINATIVE" \in Tok(p).flags THEN "Subject"
                ELSE IF "ACCUSATIVE" \in Tok(p).flags THEN "Object"
                ELSE "Modifier"
    IN  /\ deps' = deps \o << Dependency(a, i, "RelativeClause"),
                             Dependency(i, p, role) >>
        /\ pending_relative_clause' = << >>
        /\ current_clause_head' = i

RelativeClauseEdges == { j \in 1..Len(deps) : deps[j].role = "RelativeClause" }

\* The verb of the relative clause entered last.
LastRelativeVerb ==
    deps[CHOOSE j \in RelativeClauseEdges :
            \A n \in RelativeClauseEdges : n <= j].dependent_index

\* The step about to run processes, after a relative clause was entered, a
\* head noun i (no Participle, no Infinitive) that is Nominative,
\* Accusative or Dative.
C6_NounPre ==
    /\ HeadNounStep
    /\ RelativeClauseEdges # {}
    /\ ~("PARTICIPLE" \in Tok(i).flags)
    /\ ~("INFINITIVE" \in Tok(i).flags)
    /\ Tok(i).flags \cap { "NOMINATIVE", "ACCUSATIVE", "DATIVE" } # {}

C6_CaseRole ==
    IF "NOMINATIVE" \in Tok(i).flags THEN "Subject"
    ELSE IF "ACCUSATIVE" \in Tok(i).flags THEN "Object"
    ELSE "IndirectObject"

\* C6 as claimed: every such head noun is attached to the verb of the
\* relative clause.
C6_EveryFollowingNounInScope ==
    [][ /\ C6_VerbPre => C6_VerbPost
        /\ C6_NounPre =>
              /\ Len(deps') > Len(deps)
              /\ deps'[Len(deps')].dependent_index = i
              /\ deps'[Len(deps')].head_index = LastRelativeVerb
      ]_vars

\* C6 amended: such a head noun is attached to the verb of the relative
\* clause entered last, by its case, when it is processed with no active
\* coordination head and no open preposition; that verb is not the root.
C6_FollowingNounInScope ==
    [][ /\ C6_VerbPre => C6_VerbPost
        /\ C6_NounPre /\ NoOpenSlot =>
              /\ LastEdgeIs(Dependency(LastRelativeVerb, i, C6_CaseRole))
              /\ LastRelativeVerb # root
      ]_vars

\* An Accusative pronoun attached as Object to the verb of a relative
\* clause whose pronoun is its Subject.
C6_Witness ==
    \E j \in 1..Len(deps) :
        /\ deps[j].role = "RelativeClause"
        /\ deps[j].dependent_index # root
        /\ \E n \in 1..Len(deps) :
              /\ deps[n].head_index = deps[j].dependent_index
              /\ deps[n].role = "Subject"
              /\ "RELATIVE" \in Tok(deps[n].dependent_index).flags
        /\ \E n \in 1..Len(deps) :
              /\ deps[n].head_index = deps[j].dependent_index
              /\ deps[n].role = "Object"
              /\ deps[n].dependent_index > deps[j].dependent_index
        /\ pending_relative_clause = << >>
        /\ current_clause_head = deps[j].dependent_index


-----------------------------------------------------------------------------
(* C11.  Prepositional argument.  A head noun i processed while a          *)
(* preposition p is open and no coordination head is active becomes        *)
(* (p -> i, PrepositionArg) whatever its case and the slot is cleared in   *)
(* that step; an open preposition has no PrepositionArg edge yet and no    *)
(* preposition ever has two.                                               *)

PrepositionArgsOf(p) ==
    { j \in 1..Len(deps) :
        deps[j].role = "PrepositionArg" /\ deps[j].head_index = p }

C11_Pre ==
    /\ HeadNounStep
    /\ active_coordination_head = << >>
    /\ open_preposition_idx # << >>

C11_PrepositionArg ==
    /\ [][ C11_Pre =>
              /\ LastEdgeIs(Dependency(open_preposition_idx[1], i, "PrepositionArg"))
              /\ open_preposition_idx' = << >> ]_vars
    /\ [](/\ open_preposition_idx # << >> =>
                PrepositionArgsOf(open_preposition_idx[1]) = {}
          /\ \A p \in TokenIndices : Cardinality(PrepositionArgsOf(p)) <= 1)

\* A returned list in which an infinitive with a matched article is the
\* argument of a preposition and a later head noun, the slot being clear,
\* is attached by its case.
C11_Witness ==
    /\ Returned
    /\ open_preposition_idx = << >>
    /\ \E j \in 1..Len(deps) :
          /\ deps[j].role = "PrepositionArg"
          /\ "INFINITIVE" \in Tok(deps[j].dependent_index).flags
          /\ \E n \in 1..Len(deps) :
                /\ deps[n].head_index = deps[j].dependent_index
                /\ "ARTICLE" \in Tok(deps[n].dependent_index).flags
          /\ \E n \in 1..Len(deps) :
                /\ deps[n].dependent_index > deps[j].dependent_index
                /\ deps[n].role \in { "Subject", "Object" }


-----------------------------------------------------------------------------
(* C12.  Coordination.  A Conjunction i # root becomes the Coordinator of  *)
(* the last noun, or of the clause head when no noun was seen; the next    *)
(* head noun becomes the Conjunct of that same head and clears the slot,   *)
(* and a head noun processed with the slot clear is no Conjunct.           *)

\* The step about to run processes the conjunction i.
C12_ConjunctionStep ==
    /\ InLoop
    /\ i # root
    /\ ~("PREPOSITION" \in Tok(i).flags)
    /\ "CONJUNCTION" \in Tok(i).flags

C12_Head ==
    IF last_noun_idx # << >> THEN last_noun_idx[1] ELSE current_clause_head

CoordinatorEdges == { j \in 1..Len(deps) : deps[j].role = "Coordinator" }

\* The head of the Coordinator edge emitted last.
LastCoordinatorHead ==
    deps[CHOOSE j \in CoordinatorEdges :
            \A n \in CoordinatorEdges : n <= j].head_index

C12_Coordination ==
    /\ [][ /\ C12_ConjunctionStep =>
                /\ deps' = Append(deps, Dependency(C12_Head, i, "Coordinator"))
                /\ active_coordination_head' = << C12_Head >>
           /\ HeadNounStep /\ active_coordination_head # << >> =>
                /\ LastEdgeIs(Dependency(active_coordination_head[1], i, "Conjunct"))
                /\ active_coordination_head' = << >>
           /\ HeadNounStep /\ active_coordination_head = << >> =>
                /\ Len(deps') > Len(deps)
                /\ deps'[Len(deps')].role # "Conjunct"
                /\ active_coordination_head' = << >>
           /\ ~C12_ConjunctionStep /\ ~HeadNounStep =>
                active_coordination_head' = active_coordination_head
         ]_vars
    /\ [](active_coordination_head # << >> =>
            /\ CoordinatorEdges # {}
            /\ active_coordination_head[1] = LastCoordinatorHead)

\* A returned list in which a conjunction hangs from a noun, the next head
\* noun is the Conjunct of that noun and the head noun after it is attached
\* by its case.
C12_Witness ==
    /\ Returned
    /\ \E c \in 1..Len(deps), n \in 1..Len(deps), m \in 1..Len(deps) :
          /\ deps[c].role = "Coordinator"
          /\ "NOUN" \in Tok(deps[c].head_index).flags
          /\ deps[n].role = "Conjunct"
          /\ deps[n].head_index = deps[c].head_index
          /\ deps[n].dependent_index > deps[c].dependent_index
          /\ deps[m].dependent_index > deps[n].dependent_index
          /\ deps[m].role \in { "Subject", "Object" }
          /\ "NOUN" \in Tok(deps[m].dependent_index).flags


-----------------------------------------------------------------------------
(* C13.  Attachment by case.  A head noun i that is neither Participle nor *)
(* Infinitive, processed with no active coordination head and no open      *)
(* preposition, is attached by its case: Nominative Subject, Accusative    *)
(* Object, Dative IndirectObject, any other case Modifier, each under the  *)
(* clause head, except a Genitive after an earlier head noun, which is the *)
(* Modifier of that noun.                                                  *)

C13_Pre ==
    /\ HeadNounStep
    /\ NoOpenSlot
    /\ ~("PARTICIPLE" \in Tok(i).flags)
    /\ ~("INFINITIVE" \in Tok(i).flags)

C13_Edge ==
    LET f == Tok(i).flags
    IN  CASE "NOMINATIVE" \in f -> Dependency(current_clause_head, i, "Subject")
          [] "ACCUSATIVE" \in f -> Dependency(current_clause_head, i, "Object")
          [] "GENITIVE" \in f /\ last_noun_idx # << >> ->
                Dependency(last_noun_idx[1], i, "Modifier")
          [] "GENITIVE" \in f /\ last_noun_idx = << >> ->
                Dependency(current_clause_head, i, "Modifier")
          [] "DATIVE" \in f -> Dependency(current_clause_head, i, "IndirectObject")
          [] OTHER -> Dependency(current_clause_head, i, "Modifier")

C13_CaseAttachment ==
    [][ C13_Pre =>
           /\ LastEdgeIs(C13_Edge)
           /\ \A j \in 1..Len(deps) : deps'[j] = deps[j]
           /\ last_noun_idx' = << i >> ]_vars

\* A returned list with a genitive under the clause head, a genitive under
\* the noun before it and a vocative under the clause head.
C13_Witness ==
    /\ Returned
    /\ \E j \in 1..Len(deps) :
          /\ "GENITIVE" \in Tok(deps[j].dependent_index).flags
          /\ "NOUN" \in Tok(deps[j].dependent_index).flags
          /\ deps[j] = Dependency(root, deps[j].dependent_index, "Modifier")
    /\ \E j \in 1..Len(deps) :
          /\ "GENITIVE" \in Tok(deps[j].dependent_index).flags
          /\ "NOUN" \in Tok(deps[j].dependent_index).flags
          /\ "NOUN" \in Tok(deps[j].head_index).flags
          /\ deps[j].role = "Modifier"
    /\ \E j \in 1..Len(deps) :
          /\ "VOCATIVE" \in Tok(deps[j].dependent_index).flags
          /\ deps[j] = Dependency(root, deps[j].dependent_index, "Modifier")

\* A returned list with a dative noun that is the IndirectObject of the
\* verb of a relative clause.
C13_WitnessScope ==
    /\ Returned
    /\ \E j \in 1..Len(deps) :
          /\ deps[j].role = "IndirectObject"
          /\ deps[j].head_index # root


-----------------------------------------------------------------------------
(* C14.  Pending modifiers.  An Article or Adjective not marked Noun that  *)
(* reaches the nominal rule is appended to pending_modifiers and gets no   *)
(* edge; a later head noun i takes the pending modifiers that agree with   *)
(* it (equal case bits or i Infinitive, gender and number equal or one     *)
(* side empty) as (i -> m, Modifier) and removes them, the others stay     *)
(* pending in order; no pending index is ever the dependent of an edge,    *)
(* and a modifier only ever hangs from a later head noun it agrees with.   *)

\* Token t is an Article or Adjective not marked Noun.
C14_IsModifier(t) ==
    /\ "ARTICLE" \in t.flags \/ "ADJECTIVE" \in t.flags
    /\ ~("NOUN" \in t.flags)

\* The step about to run processes such a token in the nominal rule.
C14_ModifierStep ==
    /\ ReachesNominal
    /\ is_nominal(Tok(i))
    /\ C14_IsModifier(Tok(i))

C14_Agrees(m, h) ==
    /\ \/ Tok(m).flags \cap case_mask = Tok(h).flags \cap case_mask
       \/ "INFINITIVE" \in Tok(h).flags
    /\ GenderNumberAgree(Tok(m), Tok(h))

\* The edges a step appends.
NewEdges == { deps'[j] : j \in (Len(deps) + 1)..Len(deps') }

PendingSet == { pending_modifiers[n] : n \in 1..Len(pending_modifiers) }

C14_StaysPending(m) == ~C14_Agrees(m, i)

-----------------------------------------------------------------------------
(* C15.  Emission order.  A step only appends edges: every edge keeps its  *)
(* position and its dependent; the only change to an existing edge is the  *)
(* RELINK of a participle or infinitive i, which overwrites the head and   *)
(* the role of one edge of the last noun with (i, Subject); an appended    *)
(* edge never repeats the dependent of an existing edge.                   *)

\* The positions whose edge the step changes.
ChangedEdges == { j \in 1..Len(deps) : deps'[j] # deps[j] }

C15_RelinkStep ==
    /\ HeadNounStep
    /\ NoOpenSlot
    /\ last_noun_idx # << >>
    /\ \/ "PARTICIPLE" \in Tok(i).flags /\ "GENITIVE" \in Tok(i).flags
       \/ "INFINITIVE" \in Tok(i).flags /\ ~("PARTICIPLE" \in Tok(i).flags)

C15_EmissionOrder ==
    [][ /\ Len(deps') >= Len(deps)
        /\ \A j \in 1..Len(deps) :
              deps'[j].dependent_index = deps[j].dependent_index
        /\ Cardinality(ChangedEdges) <= 1
        /\ \A j \in ChangedEdges :
              /\ C15_RelinkStep
              /\ deps[j].dependent_index = last_noun_idx[1]
              /\ deps'[j].head_index = i
              /\ deps'[j].role = "Subject"
        /\ \A e \in NewEdges : \A j \in 1..Len(deps) :
              deps[j].dependent_index # e.dependent_index
        /\ pc = "loop" => \A e \in NewEdges : e.dependent_index <= i
      ]_vars

\* A returned list in which the relinked edge was not the last one when it
\* was rewritten: the noun, now the Subject of the infinitive, is still
\* listed before the adjective the infinitive took as its Modifier.
C15_Witness ==
    /\ Returned
    /\ \E j \in 1..Len(deps), n \in 1..Len(deps), c \in 1..Len(deps) :
          /\ j < n /\ n < c
          /\ deps[j].role = "Subject"
          /\ deps[n].role = "Modifier"
          /\ deps[c].role = "Complement"
          /\ deps[j].head_index = deps[c].dependent_index
          /\ deps[n].head_index = deps[c].dependent_index
          /\ deps[j].dependent_index < deps[n].dependent_index

\* A returned list with both RELINKs: each relinked noun keeps the position
\* of its edge, before the edge of the participle or infinitive that is now
\* its head.
C15_WitnessBoth ==
    /\ Returned
    /\ \E j \in 1..Len(deps), n \in 1..Len(deps) :
          /\ j < n
          /\ deps[j].role = "Subject"
          /\ deps[j].head_index = deps[n].dependent_index
          /\ deps[n].role = "AbsoluteClause"
    /\ \E j \in 1..Len(deps), n \in 1..Len(deps) :
          /\ j < n
          /\ deps[j].role = "Subject"
          /\ deps[j].head_index = deps[n].dependent_index
          /\ deps[n].role = "Complement"


-----------------------------------------------------------------------------
(* C16.  Span round trip.  For every token of parse_with_spans and of      *)
(* Lexer::tokenize the span is a valid byte range of the text and the      *)
(* bytes of that range are the bytes of the token's surface text: the      *)
(* word slice, or the one punctuation character.                           *)

\* The surface text of a raw token.
SurfaceOf(raw) == IF raw.kind = "Word" THEN raw.s ELSE << raw.c >>

C16_SpanRoundTrip ==
    /\ lex_pc # "panic"
    /\ \A k \in 1..Len(result) :
          LET span == result[k][1]
          IN  /\ 0 <= span.start
              /\ span.start <= span.end
              /\ span.end <= str_len(original_input)
              /\ is_char_boundary(original_input, span.start)
              /\ is_char_boundary(original_input, span.end)
              /\ SubSeq(as_bytes(original_input), span.start + 1, span.end)
                    = as_bytes(SurfaceOf(result[k][2]))
    /\ lex_pc = "done" =>
          /\ Len(lex_tokens) = Len(result)
          /\ \A k \in 1..Len(lex_tokens) :
                /\ lex_tokens[k].span = result[k][1]
                /\ lex_tokens[k].text = SurfaceOf(result[k][2])

\* tokenize has returned a word with a three-byte letter that starts after
\* a skipped three-byte sign, and a punctuation token after the word.
C16_Witness ==
    /\ lex_pc = "done"
    /\ \E k \in 1..Len(lex_tokens) :
          /\ lex_tokens[k].kind.kind # "Punctuation"
          /\ \E n \in 1..Len(lex_tokens[k].text) : lex_tokens[k].text[n] = 7936
          /\ lex_tokens[k].span.start >= 3
          /\ original_input[1] = 8364
          /\ \E m \in 1..Len(lex_tokens) :
                /\ m > k
                /\ lex_tokens[m].kind.kind = "Punctuation"
                /\ lex_tokens[m].span.end = lex_tokens[m].span.start + 1

-----------------------------------------------------------------------------
(* C17.  The tokens of parse_with_spans are, from left to right, the       *)
(* maximal runs of characters of U+0370..U+03FF, of U+1F00..U+1FFF or      *)
(* otherwise alphabetic, each as one Word, and every occurrence of         *)
(* . , ; ? ! as one Punctuation; whitespace and every other character give *)
(* no token, and two Word tokens never touch in the text.                  *)
C17_WordChar(c) ==
    \/ 880 <= c /\ c <= 1023
    \/ 7936 <= c /\ c <= 8191
    \/ is_alphabetic(c)

C17_PunctChar(c) == c \in { 46, 44, 59, 63, 33 }

\* The scalar positions of the text where a token starts.
C17_Starts ==
    { p \in 1..Len(original_input) :
        \/ /\ C17_WordChar(original_input[p])
           /\ p = 1 \/ ~C17_WordChar(original_input[p - 1])
        \/ /\ ~C17_WordChar(original_input[p])
           /\ C17_PunctChar(original_input[p]) }

\* The last position of the run of word characters that starts at p.
C17_RunEnd(p) ==
    CHOOSE q \in p..Len(original_input) :
        /\ \A r \in p..q : C17_WordChar(original_input[r])
        /\ q = Len(original_input) \/ ~C17_WordChar(original_input[q + 1])

C17_NthStart(k) ==
    CHOOSE p \in C17_Starts : Cardinality({ q \in C17_Starts : q < p }) = k - 1

\* The token that starts at position p, with its span in bytes.
C17_TokenAt(p) ==
    LET before == str_len(SubSeq(original_input, 1, p - 1))
    IN  IF C17_WordChar(original_input[p])
        THEN LET w == SubSeq(original_input, p, C17_RunEnd(p))
             IN  << Span(before, before + str_len(w)), RawWord(w) >>
        ELSE << Span(before, before + len_utf8(original_input[p])),
                RawPunct(original_input[p]) >>

C17_Expected == [ k \in 1..Cardinality(C17_Starts) |-> C17_TokenAt(C17_NthStart(k)) ]

C17_TokenSequence ==
    /\ Len(result) <= Len(C17_Expected)
    /\ result = SubSeq(C17_Expected, 1, Len(result))
    /\ lex_pc \in { "scanned", "done" } => result = C17_Expected
    /\ \A k \in 1..(Len(result) - 1) :
          result[k][2].kind = "Word" /\ result[k + 1][2].kind = "Word"
              => result[k][1].end < result[k + 1][1].start

\* A finished scan of a text with a word of two letters of different
\* blocks, a character that gives no token and a punctuation mark.
C17_Witness ==
    /\ lex_pc = "scanned"
    /\ \E k \in 1..Len(result) :
          /\ result[k][2].kind = "Word"
          /\ Len(result[k][2].s) >= 2
          /\ \E n \in 1..Len(result[k][2].s) : result[k][2].s[n] = 7936
          /\ \E n \in 1..Len(result[k][2].s) : result[k][2].s[n] = 945
    /\ \E k \in 1..Len(result) : result[k][2].kind = "Punct"
    /\ \E p \in 1..Len(original_input) : original_input[p] = 8364

\* A finished scan with two words that only whitespace separates.
C17_WitnessWords ==
    /\ lex_pc = "scanned"
    /\ \E k \in 1..(Len(result) - 1) :
          /\ result[k][2].kind = "Word"
          /\ result[k + 1][2].kind = "Word"
          /\ result[k + 1][1].start = result[k][1].end + 1

-----------------------------------------------------------------------------
(* C18.  parse_with_spans terminates on every text and has no failing      *)
(* outcome: each iteration of its loop either stops because nothing but    *)
(* whitespace is left, or leaves a strictly shorter input: shorter by the  *)
(* skipped whitespace and a token, or by the skipped whitespace and        *)
(* exactly one scalar that starts no token.                                *)
C18_ProperSuffix(s, t) ==
    /\ Len(s) < Len(t)
    /\ s = SubSeq(t, Len(t) - Len(s) + 1, Len(t))

C18_Iteration ==
    lex_pc = "scan" =>
        \/ /\ lex_pc' = "scanned"
           /\ \A p \in 1..Len(input) : input[p] \in { 32, 9, 10, 13 }
        \/ /\ lex_pc' = "scan"
           /\ C18_ProperSuffix(input', input)
           /\ \/ Len(result') = Len(result) + 1
              \/ /\ result' = result
                 /\ \E n \in 0..(Len(input) - 1) :
                       /\ \A p \in 1..n : input[p] \in { 32, 9, 10, 13 }
                       /\ input' = SubSeq(input, n + 2, Len(input))

C18_Terminates ==
    /\ [][C18_Iteration]_vars
    /\ <>(lex_pc = "scanned")
    /\ [](lex_pc \in { "scan", "scanned", "done" })

\* The loop has ended on a text where it skipped whitespace, matched a
\* token and recovered from a scalar that starts none, the last one being
\* such a scalar.
C18_Witness ==
    /\ lex_pc = "scanned"
    /\ Len(result) >= 1
    /\ \E p \in 1..Len(original_input) : original_input[p] = 32
    /\ Len(original_input) >= 3
    /\ original_input[Len(original_input)] = 8364

-----------------------------------------------------------------------------
(* C19.  tokenize gives a word token the kind Word(id), id being the id of *)
(* the first lemma in archive order whose text equals the surface form or  *)
(* is a prefix of it, and UnknownWord when there is no such lemma; a       *)
(* punctuation token gets Punctuation(c).                                  *)
C19_Qualifies(text, surface) ==
    /\ Len(text) <= Len(surface)
    /\ \A p \in 1..Len(text) : text[p] = surface[p]

C19_Qualifying(surface) ==
    { j \in 1..Len(dict.lemmas) : C19_Qualifies(dict.lemmas[j].text, surface) }

C19_First(surface) ==
    CHOOSE j \in C19_Qualifying(surface) : \A n \in C19_Qualifying(surface) : j <= n

C19_Kind(raw) ==
    IF raw.kind = "Punct" THEN [kind |-> "Punctuation", c |-> raw.c]
    ELSE IF C19_Qualifying(raw.s) = {} THEN [kind |-> "UnknownWord"]
    ELSE [kind |-> "Word", id |-> dict.lemmas[C19_First(raw.s)].id]

C19_LookupKind ==
    lex_pc = "done" =>
        /\ Len(lex_tokens) = Len(result)
        /\ \A k \in 1..Len(lex_tokens) : lex_tokens[k].kind = C19_Kind(result[k][2])

\* tokenize has returned a word whose first qualifying lemma is a proper
\* prefix of it, a later lemma with a smaller id being equal to it, and a
\* punctuation token.
C19_Witness ==
    /\ lex_pc = "done"
    /\ \E k \in 1..Len(lex_tokens) :
          /\ lex_tokens[k].kind.kind = "Word"
          /\ Len(dict.lemmas) = 2
          /\ dict.lemmas[1].id = lex_tokens[k].kind.id
          /\ Len(dict.lemmas[1].text) < Len(lex_tokens[k].text)
          /\ dict.lemmas[2].text = lex_tokens[k].text
          /\ dict.lemmas[2].id < dict.lemmas[1].id
    /\ \E k \in 1..Len(lex_tokens) : lex_tokens[k].kind.kind = "Punctuation"

\* tokenize has returned an unknown word and a known one from an archive
\* with two lemmas.
C19_WitnessUnknown ==
    /\ lex_pc = "done"
    /\ Len(dict.lemmas) = 2
    /\ \E k \in 1..Len(lex_tokens) : lex_tokens[k].kind.kind = "UnknownWord"
    /\ \E k \in 1..Len(lex_tokens) : lex_tokens[k].kind.kind = "Word"

-----------------------------------------------------------------------------
(* C20.  When some (lemma, paradigm, ending) is such that the surface form *)
(* ends with the suffix of the ending and the lemma text starts with the   *)
(* surface form minus that suffix (with a hint, only lemmas with the id of *)
(* the hint count), resolve_morphology returns the first such triple in    *)
(* lemma, then paradigm, then ending order: lemma_id is the id of its      *)
(* lemma, stem the surface form minus the suffix, kind "Word", and the     *)
(* flags are the flags of the ending without the bits that are no flag.    *)
C20_Triples ==
    { t \in (1..Len(dict.lemmas)) \X (1..Len(dict.paradigms)) \X (1..MaxEndings + 1) :
        /\ t[3] <= Len(dict.paradigms[t[2]].endings)
        /\ known_lemma_id # << >> => dict.lemmas[t[1]].id = known_lemma_id[1] }

C20_Suffix(t) == dict.paradigms[t[2]].endings[t[3]][2]

C20_Stem(t) == SubSeq(token_text, 1, Len(token_text) - Len(C20_Suffix(t)))

C20_Matching ==
    { t \in C20_Triples :
        /\ Len(C20_Suffix(t)) <= Len(token_text)
        /\ token_text = C20_Stem(t) \o C20_Suffix(t)
        /\ Len(C20_Stem(t)) <= Len(dict.lemmas[t[1]].text)
        /\ C20_Stem(t) = SubSeq(dict.lemmas[t[1]].text, 1, Len(C20_Stem(t))) }

C20_Before(a, b) ==
    \/ a[1] < b[1]
    \/ a[1] = b[1] /\ a[2] < b[2]
    \/ a[1] = b[1] /\ a[2] = b[2] /\ a[3] <= b[3]

C20_First == CHOOSE t \in C20_Matching : \A u \in C20_Matching : C20_Before(t, u)

C20_Rest ==
    /\ analysis[1].lemma_id = << dict.lemmas[C20_First[1]].id >>
    /\ analysis[1].stem = C20_Stem(C20_First)
    /\ analysis[1].kind = "Word"

C20_Case == morph_pc = "returned" /\ C20_Matching # {}

\* The statement as made: the flags are the 32 bits of the ending.
C20_FirstMatchAllBits ==
    C20_Case =>
        /\ C20_Rest
        /\ analysis[1].flags = dict.paradigms[C20_First[2]].endings[C20_First[3]][1]

C20_FirstMatch ==
    C20_Case =>
        /\ C20_Rest
        /\ analysis[1].flags =
              dict.paradigms[C20_First[2]].endings[C20_First[3]][1] \ { "UNDECLARED" }

\* A call with a hint where an earlier lemma, an earlier paradigm and an
\* earlier ending do not decide: the hinted lemma is the second one, its
\* match comes from the second paradigm, and two endings there match.
C20_Witness ==
    /\ C20_Case
    /\ known_lemma_id # << >>
    /\ C20_First[1] = 2
    /\ C20_First[2] = 2
    /\ \E u \in C20_Matching : u # C20_First /\ u[1] = 2 /\ u[2] = 2
    /\ analysis[1].flags # {}

\* A call without a hint where the first lemma wins by a later ending
\* although the second lemma matches an earlier paradigm.
C20_WitnessLemmaMajor ==
    /\ C20_Case
    /\ known_lemma_id = << >>
    /\ C20_First[1] = 1
    /\ C20_First[2] = 2
    /\ \E u \in C20_Matching : u[1] = 2 /\ u[2] = 1

-----------------------------------------------------------------------------
(* C21.  With a hint H, resolve_morphology returns lemma_id = H and kind   *)
(* "Word", never "Unknown" and never a recovered word; when no (lemma,     *)
(* paradigm, ending) matches, the flags are empty and the stem is the      *)
(* surface form.                                                           *)
C21_HintFallback ==
    morph_pc = "returned" /\ known_lemma_id # << >> =>
        /\ analysis[1].lemma_id = known_lemma_id
        /\ analysis[1].kind = "Word"
        /\ C20_Matching = {} =>
              /\ analysis[1].flags = {}
              /\ analysis[1].stem = token_text

\* The lemmas whose text is a prefix of the surface form or has the
\* surface form as a prefix.
C21_Related ==
    { j \in 1..Len(dict.lemmas) :
        LET t == dict.lemmas[j].text
            n == IF Len(t) < Len(token_text) THEN Len(t) ELSE Len(token_text)
        IN  SubSeq(t, 1, n) = SubSeq(token_text, 1, n) }

\* A call with the id of no lemma as its hint, on a surface form that is
\* prefix-related to a lemma: nothing matches and the hint is returned.
C21_Witness ==
    /\ morph_pc = "returned"
    /\ known_lemma_id = << 9 >>
    /\ C21_Related # {}
    /\ Len(token_text) >= 1
    /\ dict.paradigms # << >>
    /\ analysis[1].lemma_id = << 9 >>

\* A call with the id of a lemma as its hint where only another lemma
\* matches an ending.
C21_WitnessOtherLemma ==
    /\ morph_pc = "returned"
    /\ known_lemma_id = << 2 >>
    /\ C20_Matching = {}
    /\ Len(token_text) >= 1
    /\ \E j \in 1..Len(dict.lemmas), p \in 1..Len(dict.paradigms) :
          scan_endings(dict.lemmas[j], dict.paradigms[p].endings, token_text, 1) # << >>

-----------------------------------------------------------------------------
(* C22.  Without a hint and without a match, when some lemma text is a     *)
(* prefix of the surface form or the surface form a prefix of it,          *)
(* resolve_morphology returns the id of the first such lemma in archive    *)
(* order with empty flags and the kind of a recovered word, which is the   *)
(* string "Word (Recovered)".                                              *)
C22_Case ==
    /\ morph_pc = "returned"
    /\ known_lemma_id = << >>
    /\ C20_Matching = {}
    /\ C21_Related # {}

C22_FirstRelated == CHOOSE j \in C21_Related : \A n \in C21_Related : j <= n

C22_Result ==
    /\ analysis[1].lemma_id = << dict.lemmas[C22_FirstRelated].id >>
    /\ analysis[1].flags = {}

C22_WitnessSecond ==
    /\ C22_Case
    /\ C22_FirstRelated = 2

-----------------------------------------------------------------------------
(* C23.  resolve_morphology returns kind "Unknown" exactly when there is   *)
(* no hint, no (lemma, paradigm, ending) matches and no lemma text is      *)
(* prefix-related to the surface form; the flags are then empty and the    *)
(* lemma_id absent.  No call ends in an error.                             *)
C23_Unknown ==
    /\ morph_pc # "panic"
    /\ morph_pc = "returned" =>
          /\ analysis[1].kind = "Unknown" <=>
                (known_lemma_id = << >> /\ C20_Matching = {} /\ C21_Related = {})
          /\ analysis[1].kind = "Unknown" =>
                /\ analysis[1].flags = {}
                /\ analysis[1].lemma_id = << >>

\* An unknown word from an archive with two lemmas and an ending that the
\* surface form ends with.
C23_Witness ==
    /\ morph_pc = "returned"
    /\ analysis[1].kind = "Unknown"
    /\ Len(dict.lemmas) = 2
    /\ \E p \in 1..Len(dict.paradigms) : \E e \in 1..Len(dict.paradigms[p].endings) :
          /\ dict.paradigms[p].endings[e][2] # << >>
          /\ ends_with(token_text, dict.paradigms[p].endings[e][2])

\* The third call of test_robust_morphology_resolution.
C23_WitnessTest ==
    /\ morph_pc = "returned"
    /\ dict = TestMorphDictionary
    /\ analysis[1].kind = "Unknown"

-----------------------------------------------------------------------------
(* C24.  For the empty surface form and no hint, resolve_morphology        *)
(* returns kind "Unknown" with empty flags and no lemma_id, whatever the   *)
(* archive.                                                                *)
C24_EmptySurfaceUnknown ==
    morph_pc = "returned" /\ token_text = << >> /\ known_lemma_id = << >> =>
        /\ analysis[1].kind = "Unknown"
        /\ analysis[1].flags = {}
        /\ analysis[1].lemma_id = << >>

\* What the code does on the empty surface form without a hint: "Unknown"
\* only for an archive without lemmas.
C24_EmptySurfaceActual ==
    morph_pc = "returned" /\ token_text = << >> /\ known_lemma_id = << >> =>
        (analysis[1].kind = "Unknown" <=> dict.lemmas = << >>)

-----------------------------------------------------------------------------
(* Reading the store and the errors.                                       *)

Validated == ecs.pc = "validated"

\* How often x occurs in the sequence q.
Count(q, x) == Cardinality({ n \in 1..Len(q) : q[n] = x })

\* Two sequences with the same elements, each as often.
SameBag(a, b) ==
    /\ Len(a) = Len(b)
    /\ \A n \in 1..Len(a) : Count(a, a[n]) = Count(b, a[n])

-----------------------------------------------------------------------------
(* C26.  validate returns one AgreementError for each of these cases and   *)
(* no other: an entity with role Subject whose number mask and that of its *)
(* head are both set and differ ("Number mismatch"), the same for the      *)
(* person masks ("Person mismatch"), an entity with role Modifier whose    *)
(* number mask and that of its head are both set and differ.  Other roles, *)
(* gender and case give no error.                                          *)
C26_Differ(e, mask) ==
    LET own == world.components[e + 1].flags \cap mask
        heads == world.components[world.components[e + 1].syntax[1].head + 1].flags \cap mask
    IN  own # {} /\ heads # {} /\ own # heads

C26_Role(e, role) ==
    /\ world.components[e + 1].syntax # << >>
    /\ world.components[e + 1].syntax[1].role = role

C26_Cases ==
    { c \in (0..(Len(world.components) - 1)) \X { "Number mismatch", "Person mismatch", "Modifier" } :
        \/ c[2] = "Number mismatch" /\ C26_Role(c[1], "Subject")
              /\ C26_Differ(c[1], { "SINGULAR", "PLURAL" })
        \/ c[2] = "Person mismatch" /\ C26_Role(c[1], "Subject")
              /\ C26_Differ(c[1], { "FIRST_PERSON", "SECOND_PERSON", "THIRD_PERSON" })
        \/ c[2] = "Modifier" /\ C26_Role(c[1], "Modifier")
              /\ C26_Differ(c[1], { "SINGULAR", "PLURAL" }) }

\* What an error says: source text, target text and the group it names.
C26_Says(err) ==
    << err.source, err.target,
       IF err.details[1] \in { "Number mismatch", "Person mismatch" }
       THEN err.details[1] ELSE "Modifier" >>

C26_CaseSays(c) ==
    << world.components[c[1] + 1].text,
       world.components[world.components[c[1] + 1].syntax[1].head + 1].text,
       c[2] >>

C26_AgreementErrors ==
    Validated =>
        /\ Len(ecs.errors) = Cardinality(C26_Cases)
        /\ \A c \in C26_Cases :
              Count([ n \in 1..Len(ecs.errors) |-> C26_Says(ecs.errors[n]) ], C26_CaseSays(c))
                  = Cardinality({ x \in C26_Cases : C26_CaseSays(x) = C26_CaseSays(c) })

\* A validation with a subject that differs in number and in person, a
\* modifier that differs in number: three errors.
C26_Witness ==
    /\ Validated
    /\ Len(ecs.errors) = 3
    /\ \E n \in 1..3 : ecs.errors[n].details[1] = "Number mismatch"
    /\ \E n \in 1..3 : ecs.errors[n].details[1] = "Person mismatch"
    /\ \E n \in 1..3 : ecs.errors[n].details[1] = "Agreement Mismatch (Det-Noun)"

\* A validation without errors of a subject whose head has no number and a
\* modifier that differs from its head in gender and case.
C26_WitnessNone ==
    /\ Validated
    /\ ecs.errors = << >>
    /\ \E e \in 0..(Len(world.components) - 1) :
          /\ C26_Role(e, "Subject")
          /\ world.components[e + 1].flags \cap number_mask # {}
    /\ \E e \in 0..(Len(world.components) - 1) :
          /\ C26_Role(e, "Modifier")
          /\ "FEMININE" \in world.components[e + 1].flags
          /\ "MASCULINE" \in world.components[world.components[e + 1].syntax[1].head + 1].flags

\* The validation of test_agreement_check.
C26_WitnessTest ==
    /\ Validated
    /\ Len(ecs.sentence) = 2
    /\ Len(ecs.errors) = 1
    /\ ecs.errors[1].details[1] = "Number mismatch"
    /\ ecs.errors[1].source = "kids"

-----------------------------------------------------------------------------
(* C27.  For given tokens and edges in which no token is the dependent of  *)
(* two edges, the errors validate returns are the same, each as often, in  *)
(* whatever order the tokens were added and the edges set.                 *)

\* The elements of a set, as a sequence in a fixed order.
RECURSIVE C27_SeqOf(_)
C27_SeqOf(S) ==
    IF S = {} THEN << >> ELSE LET x == CHOOSE y \in S : TRUE IN << x >> \o C27_SeqOf(S \ { x })

RECURSIVE C27_AddAll(_, _, _)
C27_AddAll(w, sentence, k) ==
    IF k > Len(sentence) THEN w
    ELSE C27_AddAll(add_token(w, sentence[k].text, sentence[k].lemma_id, sentence[k].flags),
                    sentence, k + 1)

RECURSIVE C27_SetAll(_, _, _)
C27_SetAll(w, ds, k) ==
    IF k > Len(ds) THEN w
    ELSE C27_SetAll(set_dependency(w, ds[k].child, ds[k].head, ds[k].role), ds, k + 1)

\* The errors when the tokens are added in sentence order and the edges
\* set in the fixed order.
C27_Reference ==
    validate(C27_SetAll(C27_AddAll(world_new, ecs.sentence, 1), C27_SeqOf(ecs.deps), 1))

C27_OneEdgePerDependent ==
    \A a, b \in ecs.deps : a.child = b.child => a = b

\* The statement as made: for any set of edges.
C27_AnyEdgesOrderFree ==
    Validated => SameBag(ecs.errors, C27_Reference)

C27_OrderFree ==
    Validated /\ C27_OneEdgePerDependent => SameBag(ecs.errors, C27_Reference)

\* A validation with two errors where the tokens were added in another
\* order than that of the sentence and the errors come in another order
\* than in the reference.
C27_Witness ==
    /\ Validated
    /\ C27_OneEdgePerDependent
    /\ Cardinality(ecs.deps) = 2
    /\ ecs.entities[1] # << 0 >>
    /\ Len(ecs.errors) >= 2
    /\ ecs.errors # C27_Reference

-----------------------------------------------------------------------------
(* C28.  After any sequence of set_dependency calls an entity carries      *)
(* exactly one Syntax, the (head, role) of the last call for it, or none   *)
(* when there was no call for it; its token data and morphology are those  *)
(* it was added with; repeating a call changes nothing.                    *)
C28_CallsFor(k) == { n \in 1..Len(ecs.calls) : ecs.calls[n].child = k }

C28_Last(k) == ecs.calls[CHOOSE n \in C28_CallsFor(k) : \A m \in C28_CallsFor(k) : m <= n]

C28_Overwritten ==
    \A k \in 0..(Len(ecs.sentence) - 1) :
        ecs.entities[k + 1] # << >> =>
            LET c == world.components[entity_of(k) + 1]
            IN  /\ c.text = ecs.sentence[k + 1].text
                /\ c.lemma_id = ecs.sentence[k + 1].lemma_id
                /\ c.flags = ecs.sentence[k + 1].flags
                /\ IF C28_CallsFor(k) = {} THEN c.syntax = << >>
                   ELSE c.syntax = << [head |-> entity_of(C28_Last(k).head),
                                       role |-> C28_Last(k).role] >>

C28_Repeat ==
    /\ ecs.calls # << >>
    /\ ecs'.calls = Append(ecs.calls, ecs.calls[Len(ecs.calls)])

C28_IdempotentOverwrite ==
    /\ [] C28_Overwritten
    /\ [][C28_Repeat => world' = world]_vars

\* An entity whose Syntax was set twice, the second call with another head
\* and role, and then once more by the same call.
C28_Witness ==
    /\ Len(ecs.calls) = 3
    /\ ecs.calls[1].child = ecs.calls[2].child
    /\ ecs.calls[1].head # ecs.calls[2].head
    /\ ecs.calls[1].role # ecs.calls[2].role
    /\ ecs.calls[3] = ecs.calls[2]

-----------------------------------------------------------------------------
(* C29: satisfies_constraint(o, r) is true iff some node reachable from o   *)
(* by zero or more IsA edges has a HasAttribute edge to r; the search      *)
(* follows no RequiresAttribute edge and does not go on from the target of *)
(* a HasAttribute edge; a lemma that is no node of the graph gives false.  *)

Searching == search.pc # "idle"

SeqRange(q) == { q[n] : n \in 1..Len(q) }

C29_EdgeSet(g) == SeqRange(g.edges)

\* S and the IsA parents of its members, n times over.
RECURSIVE C29_IsAUp(_, _, _)
C29_IsAUp(g, S, n) ==
    IF n = 0 THEN S
    ELSE C29_IsAUp(g, S \cup { e.to : e \in { x \in C29_EdgeSet(g) :
                                              x.from \in S /\ x.relation = "IsA" } },
                   n - 1)

C29_Reach(g, o) == C29_IsAUp(g, { o }, Len(g.nodes))

C29_Satisfied(g, o, r) ==
    /\ contains_key(g, o)
    /\ \E m \in C29_Reach(g, o) : SemanticEdge(m, r, "HasAttribute") \in C29_EdgeSet(g)

C29_SatisfiesConstraint ==
    Searching =>
        /\ SeqRange(search.stack) \cup SeqRange(search.visited)
               \subseteq C29_Reach(graph, search.subject)
        /\ search.pc = "returned" =>
               search.result = C29_Satisfied(graph, search.subject, search.attribute)
        /\ ~contains_key(graph, search.subject) =>
               search.pc = "returned" /\ search.result = FALSE

\* True through a parent, past a RequiresAttribute edge that leads elsewhere.
C29_Witness ==
    /\ Searching
    /\ search.pc = "returned"
    /\ search.result
    /\ Len(search.visited) >= 2
    /\ \E e \in C29_EdgeSet(graph) :
          /\ e.relation = "RequiresAttribute"
          /\ e.from \in SeqRange(search.visited)
          /\ e.to \notin C29_Reach(graph, search.subject)

\* False although a node behind a HasAttribute edge has the attribute.
C29_WitnessNotTraversed ==
    /\ Searching
    /\ search.pc = "returned"
    /\ ~search.result
    /\ contains_key(graph, search.subject)
    /\ \E e \in C29_EdgeSet(graph) :
          /\ e.relation = "HasAttribute"
          /\ e.from \in SeqRange(search.visited)
          /\ SemanticEdge(e.to, search.attribute, "HasAttribute") \in C29_EdgeSet(graph)

\* False for a lemma that is no node, in a graph where a node has the attribute.
C29_WitnessUnknown ==
    /\ Searching
    /\ ~contains_key(graph, search.subject)
    /\ \E e \in C29_EdgeSet(graph) :
          e.relation = "HasAttribute" /\ e.to = search.attribute

\* The test: with the network loaded and Stone added, Stone is not
\* edible and Apple is.
C29_WitnessStone ==
    /\ Searching
    /\ graph = add_concept(from_archived(TestNetwork), Stone)
    /\ search.pc = "returned"
    /\ search.subject = Stone
    /\ search.attribute = Edible
    /\ ~search.result

C29_WitnessApple ==
    /\ Searching
    /\ graph = add_concept(from_archived(TestNetwork), Stone)
    /\ search.pc = "returned"
    /\ search.subject = Apple
    /\ search.attribute = Edible
    /\ search.result

-----------------------------------------------------------------------------
(* C30: satisfies_constraint returns on every finite graph, with IsA       *)
(* cycles and self-loops too: no node is expanded twice, so the loop ends. *)

C30_ExpandedOnce ==
    Searching =>
        /\ \A m \in 1..Len(search.visited) : \A n \in 1..Len(search.visited) :
              m # n => search.visited[m] # search.visited[n]
        /\ Len(search.visited) <= Len(graph.nodes)

C30_Terminates ==
    /\ [] C30_ExpandedOnce
    /\ (search.pc = "loop") ~> (search.pc = "returned")

\* A search that ran to the end over a self-loop and a cycle of two nodes.
C30_Witness ==
    /\ Searching
    /\ search.pc = "returned"
    /\ ~search.result
    /\ \E m \in SeqRange(search.visited) : SemanticEdge(m, m, "IsA") \in C29_EdgeSet(graph)
    /\ \E a \in SeqRange(search.visited) : \E b \in SeqRange(search.visited) :
          /\ a # b
          /\ SemanticEdge(a, b, "IsA") \in C29_EdgeSet(graph)
          /\ SemanticEdge(b, a, "IsA") \in C29_EdgeSet(graph)

-----------------------------------------------------------------------------
(* C25: analyze_core and resolve_morphology are functions of the archive,  *)
(* the graph and the text: a call changes neither the archive nor the      *)
(* graph of the engine, and however the steps of several calls on one      *)
(* engine interleave, each call gets the report it gets when run alone.    *)

\* The locals a call had on entry.
C25_OnEntry(a) ==
    [a EXCEPT !.pc = "resolve", !.analyzed_tokens = << >>, !.world = world_new,
              !.entities = << >>, !.n = 1, !.syntax_errors = << >>, !.report = << >>]

\* The locals at the end of the same call run alone.
C25_Alone(a) == analyze_from(dict, graph, C25_OnEntry(a))

C25_AsAlone ==
    \A t \in DOMAIN analyses :
        analyses[t] # NotCalled =>
            /\ analyses[t].pc = "add" =>
                  \A k \in 1..Len(analyses[t].analyzed_tokens) :
                      analyses[t].analyzed_tokens[k]
                          = analyze_token(dict, analyses[t].tokens[k])
            /\ analyses[t].pc = "done" => analyses[t] = C25_Alone(analyses[t])

C25_EngineUntouched ==
    (\E t \in DOMAIN analyses : analyses[t] # NotCalled) =>
        dict' = dict /\ graph' = graph

C25_WitnessReports ==
    /\ analyses # << >>
    /\ analyses[1].pc = "done"
    /\ analyses[2].pc = "done"
    /\ analyses[1].report[1].semantic_errors # << >>
    /\ analyses[2].report[1].syntax_errors # << >>

-----------------------------------------------------------------------------
(* C31: validate_semantics returns, for each entity with role Object whose *)
(* lemma id and whose head's lemma id v are both present, one              *)
(* SemanticError per RequiresAttribute edge (v, r) of the graph whose r    *)
(* the object's lemma does not satisfy, an edge stored twice counting      *)
(* twice; an entity with an absent lemma on either side, or with another   *)
(* role, yields none.                                                      *)

Checked == ecs.pc = "checked"

Entities(w) == 0..(Len(w.components) - 1)

\* The entity has role Object and it and its head have a lemma id.
C31_Qualifies(w, e) ==
    /\ w.components[e + 1].syntax # << >>
    /\ w.components[e + 1].syntax[1].role = "Object"
    /\ w.components[e + 1].lemma_id # << >>
    /\ w.components[e + 1].syntax[1].head \in Entities(w)
    /\ w.components[w.components[e + 1].syntax[1].head + 1].lemma_id # << >>

C31_Verb(w, e) == w.components[w.components[e + 1].syntax[1].head + 1]

\* The RequiresAttribute edges of the head's lemma that the object's lemma
\* does not satisfy, by their place in the edge list.
C31_UnmetEdges(w, g, e) ==
    IF C31_Qualifies(w, e)
    THEN { j \in 1..Len(g.edges) :
             /\ g.edges[j].from = C31_Verb(w, e).lemma_id[1]
             /\ g.edges[j].relation = "RequiresAttribute"
             /\ ~C29_Satisfied(g, w.components[e + 1].lemma_id[1], g.edges[j].to) }
    ELSE {}

\* The lemma ids those edges lead to.
C31_UnmetAttributes(w, g, e) == { g.edges[j].to : j \in C31_UnmetEdges(w, g, e) }

\* The error reported for the entity e.
C31_ErrorOf(w, e) ==
    SemanticError(C31_Verb(w, e).text, w.components[e + 1].text,
                  << "Constraint Violation", w.components[e + 1].text,
                     C31_Verb(w, e).text >>)

C31_ErrorsOfSomeEntity ==
    \A n \in 1..Len(ecs.semantic_errors) :
        \E e \in Entities(world) :
            C31_Qualifies(world, e) /\ ecs.semantic_errors[n] = C31_ErrorOf(world, e)

\* As first stated: one error per lemma id r.
C31_OnePerAttribute ==
    Checked =>
        /\ C31_ErrorsOfSomeEntity
        /\ \A e \in Entities(world) :
              C31_Qualifies(world, e) =>
                  Count(ecs.semantic_errors, C31_ErrorOf(world, e))
                      = Cardinality(C31_UnmetAttributes(world, graph, e))

C31_OnePerRequirement ==
    Checked =>
        /\ C31_ErrorsOfSomeEntity
        /\ \A e \in Entities(world) :
              C31_Qualifies(world, e) =>
                  Count(ecs.semantic_errors, C31_ErrorOf(world, e))
                      = Cardinality(C31_UnmetEdges(world, graph, e))

\* Two different requirements, one met and one not: one error.
C31_Witness ==
    /\ Checked
    /\ Len(ecs.semantic_errors) = 1
    /\ \E e \in Entities(world) :
          /\ C31_Qualifies(world, e)
          /\ Cardinality({ j \in 1..Len(graph.edges) :
                             /\ graph.edges[j].from = C31_Verb(world, e).lemma_id[1]
                             /\ graph.edges[j].relation = "RequiresAttribute" }) = 2
          /\ Cardinality(C31_UnmetEdges(world, graph, e)) = 1

\* One requirement stored twice and not met: two errors.
C31_WitnessTwice ==
    /\ Checked
    /\ Len(ecs.semantic_errors) = 2
    /\ \E e \in Entities(world) :
          /\ Cardinality(C31_UnmetEdges(world, graph, e)) = 2
          /\ Cardinality(C31_UnmetAttributes(world, graph, e)) = 1

\* An Object with no lemma, an Object of a head with no lemma and a Subject
\* of a verb with an unmet requirement: no error.
C31_WitnessNone ==
    /\ Checked
    /\ ecs.semantic_errors = << >>
    /\ \E j \in 1..Len(graph.edges) : graph.edges[j].relation = "RequiresAttribute"
    /\ \E e \in Entities(world) :
          /\ world.components[e + 1].syntax # << >>
          /\ ~C31_Qualifies(world, e)
          /\ \/ world.components[e + 1].lemma_id = << >>
             \/ world.components[e + 1].syntax[1].role = "Subject"
             \/ world.components[world.components[e + 1].syntax[1].head + 1].lemma_id = << >>

(***************************************************************************)
(* C37: validate_semantics considers only Object edges whose head is a     *)
(* verb: an entity with role Object whose head token is not a verb yields  *)
(* no SemanticError, whatever RequiresAttribute edges leave the lemma of   *)
(* the head.                                                               *)
(***************************************************************************)

\* The entity has role Object and its head is a token that is not a verb.
C37_ObjectOfNonVerb(w, e) ==
    /\ w.components[e + 1].syntax # << >>
    /\ w.components[e + 1].syntax[1].role = "Object"
    /\ w.components[e + 1].syntax[1].head \in Entities(w)
    /\ ~is_verb(C31_Verb(w, e))

C37_VerbHeadsOnly ==
    Checked =>
        \A e \in Entities(world) :
            C37_ObjectOfNonVerb(world, e) =>
                Count(ecs.semantic_errors, C31_ErrorOf(world, e)) = 0

\* The Object of a noun whose lemma requires an attribute is reported.
C37_NounHeadReported ==
    /\ Checked
    /\ \E e \in Entities(world) :
          /\ C37_ObjectOfNonVerb(world, e)
          /\ C31_UnmetEdges(world, graph, e) # {}
          /\ Count(ecs.semantic_errors, C31_ErrorOf(world, e)) > 0

(***************************************************************************)
(* C32: in any sequence of load_semantics and analyse calls on one engine, *)
(* an analyse call made before any load_semantics reports no semantic      *)
(* error, and one made after a load uses exactly the graph built from the  *)
(* blob of the most recent load_semantics: a later load replaces the       *)
(* earlier graph.                                                          *)
(***************************************************************************)

\* The places of the load_semantics calls made before the call k.
C32_LoadsBefore(k) == { j \in 1..(k - 1) : analyses[j].op = "load_semantics" }

C32_LastLoad(k) == CHOOSE j \in C32_LoadsBefore(k) : \A m \in C32_LoadsBefore(k) : m <= j

C32_LatestLoadOnly ==
    \A k \in 1..Len(analyses) :
        analyses[k].op = "analyze" =>
            /\ analyses[k].out.pc = "done"
            /\ IF C32_LoadsBefore(k) = {}
               THEN analyses[k].out.report[1].semantic_errors = << >>
               ELSE analyses[k].out
                      = analyze_core(dict, from_archived(analyses[C32_LastLoad(k)].net),
                                     analyses[k].text[1], analyses[k].text[2])

\* Two loads, then a call whose report is not the one the two blobs together
\* would give.
C32_Witness ==
    /\ Len(analyses) >= 3
    /\ analyses[1].op = "load_semantics"
    /\ analyses[2].op = "load_semantics"
    /\ analyses[3].op = "analyze"
    /\ analyses[3].out.report[1].semantic_errors # << >>
    /\ analyses[3].out
         # analyze_core(dict, from_archived(analyses[1].net \o analyses[2].net),
                        analyses[3].text[1], analyses[3].text[2])

\* A call before any load, of a verb with an object: no semantic error.
C32_WitnessNoGraph ==
    /\ Len(analyses) >= 3
    /\ analyses[1].op = "analyze"
    /\ analyses[1].out.world.archetype # << >>
    /\ analyses[1].out.report[1].semantic_errors = << >>
    /\ analyses[2].op = "load_semantics"
    /\ analyses[3].op = "analyze"
    /\ analyses[3].text = analyses[1].text
    /\ analyses[3].out.report[1].semantic_errors # << >>

(***************************************************************************)
(* C33: for every input text over a well-formed archive analyze_core       *)
(* returns a report and never aborts; report.tokens has exactly one entry  *)
(* per tokenizer token, in input byte order, and a punctuation token is    *)
(* reported with kind "Punctuation", no lemma id and morphology "None".    *)
(***************************************************************************)

\* The tokens of tokenize lie in the text one after the other.
C33_ByteOrder ==
    \A k \in 1..Len(lex_tokens) :
        /\ slice_ok(original_input, lex_tokens[k].span.start, lex_tokens[k].span.end)
        /\ lex_tokens[k].text
             = str_slice(original_input, lex_tokens[k].span.start, lex_tokens[k].span.end)
        /\ k < Len(lex_tokens) => lex_tokens[k].span.end <= lex_tokens[k + 1].span.start

C33_Reported(a) ==
    /\ a.pc = "done"
    /\ Len(a.report[1].tokens) = Len(lex_tokens)
    /\ \A k \in 1..Len(lex_tokens) :
          /\ a.report[1].tokens[k].text = lex_tokens[k].text
          /\ lex_tokens[k].kind.kind = "Punctuation" =>
                /\ a.report[1].tokens[k].kind = "Punctuation"
                /\ a.report[1].tokens[k].lemma_id = << >>
                /\ a.report[1].tokens[k].morphology = { "None" }

C34_VerbFlags ==
    { "ACTIVE", "PASSIVE", "PRESENT", "PAST", "FUTURE",
      "FIRST_PERSON", "SECOND_PERSON", "THIRD_PERSON" }

C34_IsVerb(t) == (\E f \in C34_VerbFlags : f \in t.flags) /\ "NOUN" \notin t.flags

C34_Verbs == { k \in 0..(Len(tokens) - 1) : C34_IsVerb(tokens[k + 1]) }

C34_Root ==
    pc \in { "loop", "done" } =>
        /\ IF C34_Verbs = {} THEN root = 0
           ELSE root \in C34_Verbs /\ \A k \in C34_Verbs : root <= k
        /\ i = 0 => current_clause_head = root

\* The step of the loop is the one of the secondary verb branch.
C34_HandledAsSecondary ==
    /\ i' = i + 1
    /\ UNCHANGED << open_preposition_idx, pending_modifiers, last_noun_idx,
                    active_coordination_head >>
    /\ IF pending_relative_clause # << >>
       THEN /\ Len(deps') = Len(deps) + 2
            /\ SubSeq(deps', 1, Len(deps)) = deps
            /\ deps'[Len(deps) + 1]
                 = Dependency(pending_relative_clause[1][2], i, "RelativeClause")
            /\ deps'[Len(deps) + 2].head_index = i
            /\ deps'[Len(deps) + 2].dependent_index = pending_relative_clause[1][1]
            /\ current_clause_head' = i
            /\ pending_relative_clause' = << >>
       ELSE UNCHANGED << deps, current_clause_head, pending_relative_clause >>

C34_LaterVerb == InLoop /\ i # root /\ C34_IsVerb(Tok(i))

\* As first stated: every later verb.
C34_EveryLaterVerb ==
    /\ []C34_Root
    /\ [][C34_LaterVerb => C34_HandledAsSecondary]_vars

C34_RootAndSecondaryVerbs ==
    /\ []C34_Root
    /\ [][( /\ C34_LaterVerb
            /\ Tok(i).flags \cap { "PREPOSITION", "CONJUNCTION", "RELATIVE" } = {} )
            => C34_HandledAsSecondary]_vars

\* The root is not the first token and a later verb with a case has closed a
\* relative clause: it has no edge of a nominal.
C34_Witness ==
    /\ pc = "done"
    /\ root > 0
    /\ \E k \in (root + 1)..(Len(tokens) - 1) :
          /\ C34_IsVerb(tokens[k + 1])
          /\ has_case(tokens[k + 1])
          /\ \E n \in 1..Len(deps) :
                deps[n].dependent_index = k /\ deps[n].role = "RelativeClause"
          /\ \A n \in 1..Len(deps) :
                deps[n].dependent_index = k => deps[n].role = "RelativeClause"

\* No verb: token 0 is the root.
C34_WitnessNoVerb ==
    /\ pc = "done"
    /\ C34_Verbs = {}
    /\ Len(tokens) >= 2
    /\ root = 0

\* A relative pronoun with a person flag, after a noun, is taken as a
\* relative pronoun.
C34_WitnessRelative ==
    /\ pc = "loop"
    /\ i > 0
    /\ i - 1 # root
    /\ Tok(i - 1) = RelThird
    /\ pending_relative_clause # << >>
    /\ pending_relative_clause[1][1] = i - 1

(***************************************************************************)
(* C35: in one run of parse_greedy no dependent is relinked twice: each    *)
(* RELINK (genitive absolute or bare infinitive) rewrites one edge, whose  *)
(* dependent is the current last_noun_idx, which is then replaced by the   *)
(* larger index i, and last_noun_idx only ever increases during the pass.  *)
(***************************************************************************)

\* The edge is the result of a RELINK: a Subject of a participle or of an
\* infinitive.
C35_Relinked(e) ==
    /\ e.role = "Subject"
    /\ \/ "PARTICIPLE" \in Tok(e.head_index).flags
       \/ "INFINITIVE" \in Tok(e.head_index).flags

C35_LastNounGrows ==
    last_noun_idx # << >> =>
        /\ last_noun_idx' # << >>
        /\ last_noun_idx'[1] >= last_noun_idx[1]

C35_RelinkOfLastNoun ==
    \A n \in 1..Len(deps) :
        deps'[n] # deps[n] =>
            /\ ~C35_Relinked(deps[n])
            /\ last_noun_idx # << >>
            /\ deps[n].dependent_index = last_noun_idx[1]
            /\ deps'[n] = Dependency(i, last_noun_idx[1], "Subject")
            /\ last_noun_idx' = << i >>
            /\ i > last_noun_idx[1]
            /\ \A m \in 1..Len(deps) : m # n => deps'[m] = deps[m]

C35_RelinkedOnce ==
    [][ /\ Len(deps') >= Len(deps)
        /\ C35_LastNounGrows
        /\ C35_RelinkOfLastNoun ]_vars

\* Two RELINKs in one run, of two dependents.
C35_Witness ==
    /\ pc = "done"
    /\ \E n, m \in 1..Len(deps) :
          /\ n # m
          /\ C35_Relinked(deps[n])
          /\ C35_Relinked(deps[m])
          /\ deps[n].dependent_index # deps[m].dependent_index
          /\ "PARTICIPLE" \in Tok(deps[n].head_index).flags
          /\ "INFINITIVE" \in Tok(deps[m].head_index).flags

(***************************************************************************)
(* C36: at the end of parse_greedy a token is the dependent of no edge     *)
(* exactly when it is root; or an Article/Adjective still in               *)
(* pending_modifiers; or a relative pronoun whose pending entry was never  *)
(* consumed by a later secondary verb (none followed, no head noun         *)
(* preceded it, or a later relative pronoun overwrote it); or a secondary  *)
(* verb processed with no pending relative clause; or it matches no        *)
(* dispatch rule.  Every other token is the dependent of exactly one edge. *)
(***************************************************************************)

\* The rule of the dispatch that takes token k, read from the flags alone.
C36_Rule(k) ==
    LET f == tokens[k + 1].flags
    IN  IF k = root THEN "root"
        ELSE IF "PREPOSITION" \in f THEN "preposition"
        ELSE IF "CONJUNCTION" \in f THEN "conjunction"
        ELSE IF "RELATIVE" \in f THEN "relative"
        ELSE IF C34_IsVerb(tokens[k + 1]) THEN "verb"
        ELSE IF f \cap { "NOMINATIVE", "GENITIVE", "ACCUSATIVE", "VOCATIVE", "DATIVE" } = {}
                /\ "INFINITIVE" \notin f THEN "none"
        ELSE IF "NOUN" \in f \/ ("ARTICLE" \notin f /\ "ADJECTIVE" \notin f) THEN "head"
        ELSE "modifier"

\* The relative pronoun k is stored as pending: a head noun came before it.
C36_Stored(k) ==
    /\ C36_Rule(k) = "relative"
    /\ \E j \in 0..(k - 1) : C36_Rule(j) = "head"

\* The tokens after k that overwrite or consume a pending entry.
C36_After(k) ==
    { m \in (k + 1)..(Len(tokens) - 1) : C36_Stored(m) \/ C36_Rule(m) = "verb" }

\* The tokens before k that set or clear the pending entry.
C36_Before(k) == { m \in 0..(k - 1) : C36_Stored(m) \/ C36_Rule(m) = "verb" }

C36_Last(S) == CHOOSE m \in S : \A n \in S : n <= m

\* The pending entry of the relative pronoun k is consumed by a later verb.
C36_Consumed(k) ==
    /\ C36_Stored(k)
    /\ C36_After(k) # {}
    /\ C36_Rule(Min(C36_After(k))) = "verb"

\* A relative clause is pending when the secondary verb k is processed.
C36_PendingAt(k) ==
    /\ C36_Before(k) # {}
    /\ C36_Rule(C36_Last(C36_Before(k))) = "relative"

C36_Dangling(k) ==
    \/ C36_Rule(k) = "root"
    \/ C36_Rule(k) = "modifier" /\ SeqContains(pending_modifiers, k)
    \/ C36_Rule(k) = "relative" /\ ~C36_Consumed(k)
    \/ C36_Rule(k) = "verb" /\ ~C36_PendingAt(k)
    \/ C36_Rule(k) = "none"

C36_EdgesOf(k) == { n \in 1..Len(deps) : deps[n].dependent_index = k }

C36_DanglingOrOneEdge ==
    pc = "done" =>
        \A k \in 0..(Len(tokens) - 1) :
            Cardinality(C36_EdgesOf(k)) = IF C36_Dangling(k) THEN 0 ELSE 1

\* An overwritten relative pronoun and a consumed one, next to tokens with
\* an edge.
C36_Witness ==
    /\ pc = "done"
    /\ Len(deps) >= 3
    /\ \E k \in 0..(Len(tokens) - 1) :
          C36_Stored(k) /\ ~C36_Consumed(k) /\ C36_After(k) # {}
    /\ \E k \in 0..(Len(tokens) - 1) : C36_Consumed(k)

\* An article that no later head noun agreed with.
C36_WitnessModifier ==
    /\ pc = "done"
    /\ deps # << >>
    /\ \E k \in 0..(Len(tokens) - 2) :
          /\ C36_Rule(k) = "modifier"
          /\ C36_Dangling(k)
          /\ C36_Rule(k + 1) = "head"

\* A secondary verb with no pending clause, after a relative pronoun that
\* was not stored.
C36_WitnessVerb ==
    /\ pc = "done"
    /\ deps # << >>
    /\ \E k \in 1..(Len(tokens) - 1) :
          /\ C36_Rule(k) = "verb"
          /\ ~C36_PendingAt(k)
          /\ C36_Rule(k - 1) = "relative"

\* A token no rule takes.
C36_WitnessNone ==
    /\ pc = "done"
    /\ deps # << >>
    /\ \E k \in 0..(Len(tokens) - 1) : C36_Rule(k) = "none"

(***************************************************************************)
(* C38: attachment of a head noun follows the first matching rule: when    *)
(* both a coordination head and an open preposition are pending, the head  *)
(* noun is attached as Conjunct only and the preposition stays open; the   *)
(* next head noun processed without an active coordination head is the     *)
(* PrepositionArg of the preposition open at that moment, which is the     *)
(* same one unless a later preposition has taken the slot; Participle,     *)
(* Infinitive and case rules are applied only when neither slot is set.    *)
(***************************************************************************)

C38_HeadStep == InLoop /\ C36_Rule(i) = "head"

\* The edge the step gives the head noun: the last one pushed.
C38_OwnEdge == deps'[Len(deps')]

C38_FirstMatch ==
    C38_HeadStep =>
        /\ Len(deps') > Len(deps)
        /\ C38_OwnEdge.dependent_index = i
        /\ IF active_coordination_head # << >>
           THEN /\ C38_OwnEdge = Dependency(active_coordination_head[1], i, "Conjunct")
                /\ active_coordination_head' = << >>
                /\ open_preposition_idx' = open_preposition_idx
                /\ SubSeq(deps', 1, Len(deps)) = deps
           ELSE IF open_preposition_idx # << >>
           THEN /\ C38_OwnEdge = Dependency(open_preposition_idx[1], i, "PrepositionArg")
                /\ open_preposition_idx' = << >>
                /\ active_coordination_head' = << >>
                /\ SubSeq(deps', 1, Len(deps)) = deps
           ELSE /\ C38_OwnEdge.role \notin { "Conjunct", "PrepositionArg" }
                /\ "PARTICIPLE" \in Tok(i).flags =>
                      C38_OwnEdge.role \in { "AbsoluteClause", "Modifier" }
                /\ "PARTICIPLE" \notin Tok(i).flags /\ "INFINITIVE" \in Tok(i).flags =>
                      C38_OwnEdge.role \in { "Subject", "Object", "Complement" }
                /\ UNCHANGED << open_preposition_idx, active_coordination_head >>

\* The open preposition was passed over by a head noun that came after it
\* and was attached as Conjunct.
C38_PassedOver ==
    /\ open_preposition_idx # << >>
    /\ \E n \in 1..Len(deps) :
          /\ deps[n].role = "Conjunct"
          /\ deps[n].dependent_index > open_preposition_idx[1]

\* The preposition gets its argument: a head noun with no coordination head.
C38_GetsArgument ==
    /\ C38_HeadStep
    /\ active_coordination_head = << >>
    /\ C38_OwnEdge = Dependency(open_preposition_idx[1], i, "PrepositionArg")

\* As first stated: a preposition that was passed over leaves the slot only
\* with its argument.
C38_StaysOpenUntilArgument ==
    [][ /\ C38_FirstMatch
        /\ (C38_PassedOver /\ open_preposition_idx' # open_preposition_idx)
              => C38_GetsArgument ]_vars

C38_FirstMatchingRule ==
    [][ /\ C38_FirstMatch
        /\ (C38_PassedOver /\ open_preposition_idx' # open_preposition_idx)
              => \/ C38_GetsArgument
                 \/ /\ InLoop
                    /\ C36_Rule(i) = "preposition"
                    /\ open_preposition_idx' = << i >> ]_vars

\* A preposition, a head noun attached as Conjunct, then a head noun that is
\* the argument of the preposition.
C38_Witness ==
    /\ pc = "done"
    /\ \E n, m \in 1..Len(deps) :
          /\ deps[n].role = "Conjunct"
          /\ deps[m].role = "PrepositionArg"
          /\ deps[m].head_index < deps[n].dependent_index
          /\ deps[n].dependent_index < deps[m].dependent_index

\* A preposition passed over by a Conjunct, then a second preposition in
\* the slot: the first one has no argument.
C38_WitnessReplaced ==
    /\ pc = "loop"
    /\ open_preposition_idx # << >>
    /\ \E n \in 1..Len(deps) :
          /\ deps[n].role = "Conjunct"
          /\ deps[n].dependent_index < open_preposition_idx[1]
          /\ \E k \in 0..(deps[n].dependent_index - 1) :
                /\ C36_Rule(k) = "preposition"
                /\ \A e \in 1..Len(deps) : deps[e].head_index # k

(***************************************************************************)
(* C39: current_clause_head is never reset to root: once a secondary verb  *)
(* has consumed a pending relative clause, every later clause-level        *)
(* attachment (prepositions, Subject, Object, IndirectObject, Complement,  *)
(* AbsoluteClause, fallback Modifier) goes to the most recent such verb    *)
(* until the end of the input; and whenever current_clause_head differs    *)
(* from root, last_noun_idx is set.                                        *)
(***************************************************************************)

\* The secondary verb k consumed a pending relative clause.
C39_Consuming(k) == C36_Rule(k) = "verb" /\ C36_PendingAt(k)

\* The most recent such verb before token n, root when there is none.
C39_ClauseHeadAt(n) ==
    LET S == { k \in 0..(n - 1) : k < Len(tokens) /\ C39_Consuming(k) }
    IN  IF S = {} THEN root ELSE C36_Last(S)

C39_ScopeKept ==
    pc \in { "loop", "done" } =>
        /\ current_clause_head = C39_ClauseHeadAt(i)
        /\ current_clause_head # root => last_noun_idx # << >>

\* The edge e, pushed for token i, is a clause-level attachment.
C39_ClauseLevel(e) ==
    /\ e.dependent_index = i
    /\ \/ C36_Rule(i) = "preposition"
       \/ e.role \in { "Subject", "Object", "IndirectObject", "Complement",
                       "AbsoluteClause" }
       \/ /\ e.role = "Modifier"
          /\ C36_Rule(i) = "head"
          /\ Tok(i).flags \cap { "PARTICIPLE", "INFINITIVE", "NOMINATIVE", "ACCUSATIVE",
                                 "GENITIVE", "DATIVE" } = {}

C39_AttachedToClause ==
    \A n \in (Len(deps) + 1)..Len(deps') :
        C39_ClauseLevel(deps'[n]) => deps'[n].head_index = C39_ClauseHeadAt(i)

C39_ClauseHeadNeverReset ==
    /\ []C39_ScopeKept
    /\ [][ /\ C39_AttachedToClause
           /\ (pc = "loop" /\ current_clause_head' # current_clause_head) =>
                 /\ C39_Consuming(i)
                 /\ current_clause_head' = i ]_vars

\* After a second relative clause a preposition and an infinitive hang from
\* its verb, not from the root and not from the verb of the first clause.
C39_Witness ==
    /\ pc = "done"
    /\ Cardinality({ k \in 0..(Len(tokens) - 1) : C39_Consuming(k) }) = 1
    /\ current_clause_head = 3
    /\ \E n, m \in 1..Len(deps) :
          /\ deps[n].head_index = 3
          /\ C36_Rule(deps[n].dependent_index) = "preposition"
          /\ deps[m].head_index = 3
          /\ deps[m].role \in { "Complement", "AbsoluteClause", "IndirectObject" }

\* Two relative clauses: the later attachment goes to the verb of the second.
C39_WitnessSecond ==
    /\ pc = "done"
    /\ Cardinality({ k \in 0..(Len(tokens) - 1) : C39_Consuming(k) }) = 2
    /\ current_clause_head > 3
    /\ \E n \in 1..Len(deps) :
          /\ deps[n].head_index = current_clause_head
          /\ deps[n].dependent_index > current_clause_head

(***************************************************************************)
(* C40: after analyze_core has loaded the parser output into the store,    *)
(* the entity of token k carries a Syntax record iff k is the dependent of *)
(* an edge of the list of the parser, and that record holds the entity of  *)
(* the head of the edge and the same role: no edge is dropped (the parser  *)
(* never emits role Root or None and its indices are in range) and no      *)
(* record is overwritten by another edge.                                  *)
(***************************************************************************)

\* The Syntax records of the entity of token k, none or one.
C40_SyntaxOf(a, k) == a.world.components[a.entities[k + 1] + 1].syntax

C40_StoreHoldsEdges(a) ==
    /\ a.pc = "done"
    /\ Len(a.entities) = Len(tokens)
    /\ \A k \in 0..(Len(tokens) - 1) :
          C40_SyntaxOf(a, k) # << >>
              <=> \E n \in 1..Len(deps) : deps[n].dependent_index = k
    /\ \A n \in 1..Len(deps) :
          /\ deps[n].role \notin { "Root", "None" }
          /\ deps[n].dependent_index < Len(tokens)
          /\ deps[n].head_index < Len(tokens)
          /\ C40_SyntaxOf(a, deps[n].dependent_index)
               = << Syntax(a.entities[deps[n].head_index + 1], deps[n].role) >>

C40_StoreRefinesParser == analyses # << >> => C40_StoreHoldsEdges(analyses[1])

\* A store loaded from a list with a rewritten edge, next to tokens with no
\* edge.
C40_Witness ==
    /\ analyses # << >>
    /\ Len(deps) >= 3
    /\ \E n \in 1..Len(deps) : C35_Relinked(deps[n])
    /\ \E k \in 1..(Len(tokens) - 1) : C40_SyntaxOf(analyses[1], k) = << >>
    /\ Len(analyses[1].world.archetype) = Len(deps)

=============================================================================
